---- MODULE Spec2Model ----
(***************************************************************************)
(* State-machine model of the salon orchestration core:                    *)
(*   SalonManager      src/src/scribe_agents/salon/salon_manager.py        *)
(*   TurnCoordinator   src/src/scribe_agents/salon/turn_coordinator.py     *)
(*   ProviderRouter    src/src/scribe_core/provider_router.py              *)
(*   AgentRuntime      src/src/scribe_agents/runtime/anthropic.py          *)
(*   salon turn flow   src/apps/scribe-web/api/ws/handlers.py              *)
(* Each component has its own next-state relation and specification; the   *)
(* variables of the other components stay unchanged under it.              *)
(***************************************************************************)
EXTENDS Integers, Sequences, FiniteSets, TLC

VARIABLES
    sm_state,            \* SalonManager.state
    sm_current_turn,     \* SalonManager.current_turn
    sm_messages,         \* SalonManager.messages (the log)
    sm_stats,            \* SalonManager.participant_stats
    sm_started_at,       \* SalonManager.started_at is set
    sm_completed_at,     \* SalonManager.completed_at is set
    sm_call,             \* the last SalonManager call and how it ended
    tc_participants,     \* TurnCoordinator.participants
    tc_strategy,         \* TurnCoordinator.strategy
    tc_moderator_id,     \* TurnCoordinator.moderator_id
    tc_turn_count,       \* TurnCoordinator.turn_count
    tc_turn_history,     \* TurnCoordinator.turn_history
    tc_counts,           \* TurnCoordinator.participant_turn_counts
    tc_rr_index,         \* TurnCoordinator._round_robin_index
    tc_side_a,           \* TurnCoordinator._debate_side_a
    tc_side_b,           \* TurnCoordinator._debate_side_b
    tc_priority,         \* TurnCoordinator._priority_scores
    tc_call,             \* the last TurnCoordinator call and how it ended
    r_enabled,           \* ids of the enabled profiles of the ProviderProfilesStore
    r_pc,                \* position of the send_message call
    r_request,           \* its arguments: provider, model, payload
    r_profile,           \* the resolved ProviderProfile
    r_max_retries,       \* send_message's local max_retries
    r_attempt,           \* send_message's loop variable attempt
    r_errors,            \* send_message's local errors
    r_outcomes,          \* how each backend attempt of the call ended
    r_response,          \* what the call returned
    rt_pc,               \* position of the AnthropicAgentRuntime.run call
    rt_conversation,     \* run's argument conversation
    rt_system,           \* run's argument system
    rt_limit,            \* run's local iteration_limit
    rt_history,          \* run's local history
    rt_tool_executions,  \* run's local tool_executions
    rt_iterations,       \* run's local iterations
    rt_stop_reason,      \* run's local stop_reason
    rt_responses,        \* the backend's responses so far; the last is last_response
    rt_requests,         \* the last message of each request sent to the backend
    rt_error,            \* the exception that left run
    f_pc,                \* position of the handle_message call
    f_speaker,           \* handle_message's local next_speaker_id
    f_turn,              \* the last turn handle_message went through
    cs_sessions,         \* ProviderRouter._cli_sessions
    cs_persisted,        \* the map in the file at ProviderRouter._cli_sessions_path
    cs_lock,             \* the thread that holds ProviderRouter._cli_sessions_lock
    cs_thread,           \* each thread's position in _invoke_cli_oauth and its locals
    cs_reported,         \* per key, the id reported in the call that finished last
    ce_participants,     \* ConsensusEngine.participants
    ce_threshold,        \* ConsensusEngine.consensus_threshold, in percent
    ce_consensus_points, \* ConsensusEngine.consensus_points (the tracked history)
    ce_messages,         \* the message list last passed to analyze_messages
    ce_result,           \* the ConsensusResult it returned
    ce_now,              \* the clock read by datetime.utcnow
    ce_call,             \* the last ConsensusEngine call and how it ended
    o_pc,                \* position of the AgentSOrchestratorTool.run_impl call
    o_mode,              \* run_impl's local execution_mode
    o_tasks,             \* run_impl's local tasks
    o_timeout,           \* run_impl's local timeout_seconds
    o_sorted,            \* the task list handed to the executor, as indices of o_tasks
    o_clock,             \* the event loop's time since the executor started
    o_status,            \* how far each task's _execute_task coroutine is
    o_invoked,           \* the tasks whose persona tool was invoked, in order
    o_results,           \* the executor's result list
    j_jobs,              \* AgentJobStore._jobs
    j_pc,                \* position of the AgentJobRunner.create_job call
    j_job,               \* create_job's local job, by id
    j_returned,          \* the jobs create_job returned, in order
    j_call,              \* the last AgentJobRunner call and how it ended
    j_outcome            \* how create_job's try block ended: its locals result and exc

sm_vars == <<sm_state, sm_current_turn, sm_messages, sm_stats,
             sm_started_at, sm_completed_at, sm_call>>

tc_vars == <<tc_participants, tc_strategy, tc_moderator_id, tc_turn_count,
             tc_turn_history, tc_counts, tc_rr_index, tc_side_a, tc_side_b,
             tc_priority, tc_call>>

r_vars == <<r_enabled, r_pc, r_request, r_profile, r_max_retries, r_attempt,
            r_errors, r_outcomes, r_response>>

rt_vars == <<rt_pc, rt_conversation, rt_system, rt_limit, rt_history,
             rt_tool_executions, rt_iterations, rt_stop_reason, rt_responses,
             rt_requests, rt_error>>

f_vars == <<f_pc, f_speaker, f_turn>>

cs_vars == <<cs_sessions, cs_persisted, cs_lock, cs_thread, cs_reported>>

ce_vars == <<ce_participants, ce_threshold, ce_consensus_points, ce_messages,
             ce_result, ce_now, ce_call>>

o_vars == <<o_pc, o_mode, o_tasks, o_timeout, o_sorted, o_clock, o_status,
            o_invoked, o_results>>

j_vars == <<j_jobs, j_pc, j_job, j_returned, j_call, j_outcome>>

vars == <<sm_vars, tc_vars, r_vars, rt_vars, f_vars, cs_vars, ce_vars, o_vars, j_vars>>

(***************************************************************************)
(* Bounds of the model.                                                    *)
(***************************************************************************)
MaxMessages == 3
MaxTurn == 2
MaxTcTurns == 4
MaxLatencyMs == 1
MaxCeMessages == 3
MaxTracked == 1
MaxAnalyses == 2
MaxTasks == 2
MaxClock == 2
MaxJobs == 2

(***************************************************************************)
(* SalonManager                                                            *)
(***************************************************************************)
SalonStates == {"initializing", "active", "paused", "consensus_building",
                "completed", "error"}

\* The fixed roster of the session and the ids a caller may pass.
sm_participants == <<"p1", "p2">>
CallerIds == {"p1", "p2", "ghost"}
Contents == {"ok", "fine!"}

SeqToSet(s) == {s[i] : i \in 1..Len(s)}

NoCall == [op |-> "none", raised |-> FALSE]

SalonInit ==
    /\ sm_state = "initializing"
    /\ sm_current_turn = 0
    /\ sm_messages = <<>>
    /\ sm_stats = [p \in SeqToSet(sm_participants) |->
                     [turn_count |-> 0, total_characters |-> 0, last_message_at |-> 0]]
    /\ sm_started_at = FALSE
    /\ sm_completed_at = FALSE
    /\ sm_call = NoCall

\* A start() guard that would also restart a completed session.
StartAllowedOrCompleted(s) == s \in {"initializing", "completed"}

\* The guard of start(): `if self.state != SalonState.INITIALIZING: raise`.
StartAllowed(s) == s = "initializing"
\* The guard of pause(): `if self.state != SalonState.ACTIVE: raise`.
PauseAllowed(s) == s = "active"
\* A resume() guard that would also reopen a completed session.
ResumeAllowedOrCompleted(s) == s \in {"paused", "completed"}
\* The guard of resume(): `if self.state != SalonState.PAUSED: raise`.
ResumeAllowed(s) == s = "paused"

start ==
    \/ /\ StartAllowed(sm_state)
       /\ sm_state' = "active"
       /\ sm_started_at' = TRUE
       /\ sm_call' = [op |-> "start", raised |-> FALSE]
       /\ UNCHANGED <<sm_current_turn, sm_messages, sm_stats, sm_completed_at>>
    \/ /\ ~StartAllowed(sm_state)
       /\ sm_call' = [op |-> "start", raised |-> TRUE]
       /\ UNCHANGED <<sm_state, sm_current_turn, sm_messages, sm_stats,
                      sm_started_at, sm_completed_at>>

\* A pause() that would write the state before testing its guard.
pause_then_check ==
    /\ sm_state' = "paused"
    /\ sm_call' = [op |-> "pause", raised |-> ~PauseAllowed(sm_state)]
    /\ UNCHANGED <<sm_current_turn, sm_messages, sm_stats,
                   sm_started_at, sm_completed_at>>

pause ==
    \/ /\ PauseAllowed(sm_state)
       /\ sm_state' = "paused"
       /\ sm_call' = [op |-> "pause", raised |-> FALSE]
       /\ UNCHANGED <<sm_current_turn, sm_messages, sm_stats,
                      sm_started_at, sm_completed_at>>
    \/ /\ ~PauseAllowed(sm_state)
       /\ sm_call' = [op |-> "pause", raised |-> TRUE]
       /\ UNCHANGED <<sm_state, sm_current_turn, sm_messages, sm_stats,
                      sm_started_at, sm_completed_at>>

resume ==
    \/ /\ ResumeAllowed(sm_state)
       /\ sm_state' = "active"
       /\ sm_call' = [op |-> "resume", raised |-> FALSE]
       /\ UNCHANGED <<sm_current_turn, sm_messages, sm_stats,
                      sm_started_at, sm_completed_at>>
    \/ /\ ~ResumeAllowed(sm_state)
       /\ sm_call' = [op |-> "resume", raised |-> TRUE]
       /\ UNCHANGED <<sm_state, sm_current_turn, sm_messages, sm_stats,
                      sm_started_at, sm_completed_at>>

\* A complete() that would raise outside ACTIVE / CONSENSUS_BUILDING, as
\* start, pause and resume do outside their states.
complete_guarded ==
    \/ /\ sm_state \in {"active", "consensus_building"}
       /\ sm_state' = "completed"
       /\ sm_completed_at' = TRUE
       /\ sm_call' = [op |-> "complete", raised |-> FALSE]
       /\ UNCHANGED <<sm_current_turn, sm_messages, sm_stats, sm_started_at>>
    \/ /\ sm_state \notin {"active", "consensus_building"}
       /\ sm_call' = [op |-> "complete", raised |-> TRUE]
       /\ UNCHANGED <<sm_state, sm_current_turn, sm_messages, sm_stats,
                      sm_started_at, sm_completed_at>>

\* complete() only logs a warning outside ACTIVE / CONSENSUS_BUILDING.
complete ==
    /\ sm_state' = "completed"
    /\ sm_completed_at' = TRUE
    /\ sm_call' = [op |-> "complete", raised |-> FALSE]
    /\ UNCHANGED <<sm_current_turn, sm_messages, sm_stats, sm_started_at>>

\* The guard of add_message(): `if participant_id not in self.participants: raise`.
KnownParticipant(pid) == pid \in SeqToSet(sm_participants)

\* A message stamped with the turn that follows the current one.
SalonMessageNextTurn(pid, content, turn) ==
    [participant_id |-> pid, content |-> content, turn_number |-> turn + 1]

SalonMessage(pid, content, turn) ==
    [participant_id |-> pid, content |-> content, turn_number |-> turn]

\* A stats update that would count the message but not its characters.
UpdatedStatsTurnOnly(stats, pid, content, stamp) ==
    [stats EXCEPT ![pid] =
        [turn_count |-> @.turn_count + 1,
         total_characters |-> @.total_characters,
         last_message_at |-> stamp]]

\* The stats update of add_message(); last_message_at is the message's
\* timestamp, modelled by its position in the log.
UpdatedStats(stats, pid, content, stamp) ==
    [stats EXCEPT ![pid] =
        [turn_count |-> @.turn_count + 1,
         total_characters |-> @.total_characters + Len(content),
         last_message_at |-> stamp]]

add_message(pid, content) ==
    \/ /\ KnownParticipant(pid)
       /\ Len(sm_messages) < MaxMessages
       /\ sm_messages' = Append(sm_messages, SalonMessage(pid, content, sm_current_turn))
       /\ sm_stats' = UpdatedStats(sm_stats, pid, content, Len(sm_messages) + 1)
       /\ sm_call' = [op |-> "add_message", raised |-> FALSE]
       /\ UNCHANGED <<sm_state, sm_current_turn, sm_started_at, sm_completed_at>>
    \/ /\ ~KnownParticipant(pid)
       /\ sm_call' = [op |-> "add_message", raised |-> TRUE]
       /\ UNCHANGED <<sm_state, sm_current_turn, sm_messages, sm_stats,
                      sm_started_at, sm_completed_at>>

advance_turn ==
    /\ sm_current_turn < MaxTurn
    /\ sm_current_turn' = sm_current_turn + 1
    /\ sm_call' = [op |-> "advance_turn", raised |-> FALSE]
    /\ UNCHANGED <<sm_state, sm_messages, sm_stats, sm_started_at, sm_completed_at>>

\* max_turns of get_conversation_history: None or an integer.
NoMaxTurns == [type |-> "None", value |-> 0]
MaxTurnsOf(n) == [type |-> "int", value |-> n]

\* One line of the history, f"[{timestamp}] {participant_id}: {content}";
\* the timestamp is modelled by the message's position in the log.
HistoryLine(i) ==
    [timestamp |-> i, participant_id |-> sm_messages[i].participant_id,
     content |-> sm_messages[i].content]

\* get_conversation_history: `if max_turns:` skips the filter for None and
\* for 0; the lines are joined in log order.
get_conversation_history(max_turns) ==
    LET limited == max_turns.type = "int" /\ max_turns.value # 0
        min_turn == IF sm_current_turn - max_turns.value > 0
                    THEN sm_current_turn - max_turns.value ELSE 0
        kept == SelectSeq([i \in 1..Len(sm_messages) |-> i],
                          LAMBDA i : ~limited \/ sm_messages[i].turn_number >= min_turn)
    IN [k \in 1..Len(kept) |-> HistoryLine(kept[k])]

SalonNext ==
    \/ start /\ UNCHANGED <<tc_vars, r_vars, rt_vars, f_vars, cs_vars, ce_vars, o_vars, j_vars>>
    \/ pause /\ UNCHANGED <<tc_vars, r_vars, rt_vars, f_vars, cs_vars, ce_vars, o_vars, j_vars>>
    \/ resume /\ UNCHANGED <<tc_vars, r_vars, rt_vars, f_vars, cs_vars, ce_vars, o_vars, j_vars>>
    \/ complete /\ UNCHANGED <<tc_vars, r_vars, rt_vars, f_vars, cs_vars, ce_vars, o_vars, j_vars>>
    \/ (\E pid \in CallerIds, content \in Contents : add_message(pid, content))
          /\ UNCHANGED <<tc_vars, r_vars, rt_vars, f_vars, cs_vars, ce_vars, o_vars, j_vars>>
    \/ advance_turn /\ UNCHANGED <<tc_vars, r_vars, rt_vars, f_vars, cs_vars, ce_vars, o_vars, j_vars>>

\* A session whose state attribute holds any member of SalonState.
SalonInAnyState ==
    /\ sm_state \in SalonStates
    /\ sm_current_turn = 0
    /\ sm_messages = <<>>
    /\ sm_stats = [p \in SeqToSet(sm_participants) |->
                     [turn_count |-> 0, total_characters |-> 0, last_message_at |-> 0]]
    /\ sm_started_at \in BOOLEAN
    /\ sm_completed_at = FALSE
    /\ sm_call = NoCall

\* The lifecycle calls and advance_turn.
LifecycleNext ==
    \/ start /\ UNCHANGED <<tc_vars, r_vars, rt_vars, f_vars, cs_vars, ce_vars, o_vars, j_vars>>
    \/ pause /\ UNCHANGED <<tc_vars, r_vars, rt_vars, f_vars, cs_vars, ce_vars, o_vars, j_vars>>
    \/ resume /\ UNCHANGED <<tc_vars, r_vars, rt_vars, f_vars, cs_vars, ce_vars, o_vars, j_vars>>
    \/ complete /\ UNCHANGED <<tc_vars, r_vars, rt_vars, f_vars, cs_vars, ce_vars, o_vars, j_vars>>
    \/ advance_turn /\ UNCHANGED <<tc_vars, r_vars, rt_vars, f_vars, cs_vars, ce_vars, o_vars, j_vars>>

(***************************************************************************)
(* TurnCoordinator                                                         *)
(***************************************************************************)
Strategies == {"round_robin", "priority", "debate", "free_form", "moderated", "random"}

None == "None"

\* Rosters, moderators, debate sides and priorities the coordinator is built
\* and configured with.  "M" and "X" are ids outside every roster.
Rosters == {<<"A">>, <<"A", "B">>, <<"A", "B", "C">>}
Moderators == {None, "B", "M"}
DebateSetups == {<<<<"A">>, <<"B">>>>, <<<<"A", "B">>, <<"C">>>>,
                 <<<<"C">>, <<"A", "B">>>>, <<<<"A">>, <<"X">>>>, <<<<>>, <<"B">>>>}
Priorities == {0, 2}
TcCallerIds == {"B", "C", "X"}

NoTcCall == [op |-> "none", raised |-> FALSE]

\* TurnCoordinator.__init__ for one roster, strategy and moderator.
TurnCoordinatorInit(roster, strategy, moderator) ==
    /\ tc_participants = roster
    /\ tc_strategy = strategy
    /\ tc_moderator_id = moderator
    /\ tc_turn_count = 0
    /\ tc_turn_history = <<>>
    /\ tc_counts = [p \in SeqToSet(roster) |-> 0]
    /\ tc_rr_index = 0
    /\ tc_side_a = <<>>
    /\ tc_side_b = <<>>
    /\ tc_priority = [p \in SeqToSet(roster) |-> 1]
    /\ tc_call = NoTcCall

TurnInit ==
    \E roster \in Rosters, strategy \in Strategies, moderator \in Moderators :
        /\ moderator # None => strategy = "moderated"
        /\ TurnCoordinatorInit(roster, strategy, moderator)

Turn(pid, number, strategy) ==
    [participant_id |-> pid, turn_number |-> number, strategy |-> strategy]

\* A side total that would ignore the turn counts.
SumCountsZero(side, counts) == 0

RECURSIVE SumCounts(_, _)
\* sum(self.participant_turn_counts[p] for p in side)
SumCounts(side, counts) ==
    IF side = <<>> THEN 0 ELSE counts[Head(side)] + SumCounts(Tail(side), counts)

\* A pick that would take the first member whatever the counts.
MinByCountFirstMember(side, counts) == side[1]

\* min(side, key=lambda p: counts[p]): the first member with the least count.
MinByCount(side, counts) ==
    LET least == CHOOSE i \in 1..Len(side) :
                    /\ \A j \in 1..Len(side) : counts[side[i]] <= counts[side[j]]
                    /\ \A j \in 1..(i - 1) : counts[side[j]] > counts[side[i]]
    IN side[least]

\* A _next_round_robin that would forget to advance its index.
SameRoundRobinIndex(index, n) == index

\* The index _next_round_robin leaves behind.
NextRoundRobinIndex(index, n) == (index + 1) % n

\* _next_round_robin: the participant at the cyclic index.
RoundRobinPick == tc_participants[tc_rr_index + 1]

\* _next_debate falls back to round-robin while a side is empty.
DebateConfigured == tc_side_a # <<>> /\ tc_side_b # <<>>

\* _next_debate reads participant_turn_counts[p] for every side member: a
\* member outside the roster is a KeyError.
DebateKeyError ==
    \E p \in SeqToSet(tc_side_a) \cup SeqToSet(tc_side_b) : p \notin DOMAIN tc_counts

\* A _next_debate that would give side B the turn on equal totals.
DebatePickTieToB ==
    LET side_a_turns == SumCounts(tc_side_a, tc_counts)
        side_b_turns == SumCounts(tc_side_b, tc_counts)
        side == IF side_a_turns < side_b_turns THEN tc_side_a ELSE tc_side_b
    IN MinByCount(side, tc_counts)

\* _next_debate with both sides declared.
DebatePick ==
    LET side_a_turns == SumCounts(tc_side_a, tc_counts)
        side_b_turns == SumCounts(tc_side_b, tc_counts)
        side == IF side_a_turns <= side_b_turns THEN tc_side_a ELSE tc_side_b
    IN MinByCount(side, tc_counts)

\* _next_priority: `rand = random.random() * total_score` is walked against
\* the cumulative adjusted scores base / (1 + turns * 0.1); with scores >= 0
\* the first participant and every participant of positive score can come out.
PriorityChoices ==
    {tc_participants[1]} \cup {p \in SeqToSet(tc_participants) : tc_priority[p] > 0}

UsesRoundRobin ==
    \/ tc_strategy = "round_robin"
    \/ tc_strategy = "debate" /\ ~DebateConfigured

\* A get_next_turn whose free_form pick would break ties in any order.
NextTurnChoicesAnyLeast ==
    CASE tc_strategy = "round_robin" -> {RoundRobinPick}
      [] tc_strategy = "debate" ->
            IF DebateConfigured THEN {DebatePick} ELSE {RoundRobinPick}
      [] tc_strategy = "priority" -> PriorityChoices
      [] tc_strategy = "random" -> SeqToSet(tc_participants)
      [] tc_strategy = "moderated" ->
            {IF tc_moderator_id # None THEN tc_moderator_id ELSE tc_participants[1]}
      [] tc_strategy = "free_form" ->
            {p \in SeqToSet(tc_participants) :
                \A q \in SeqToSet(tc_participants) : tc_counts[p] <= tc_counts[q]}

\* The participants get_next_turn may pick in the current state.
NextTurnChoices ==
    CASE tc_strategy = "round_robin" -> {RoundRobinPick}
      [] tc_strategy = "debate" ->
            IF DebateConfigured THEN {DebatePick} ELSE {RoundRobinPick}
      [] tc_strategy = "priority" -> PriorityChoices
      [] tc_strategy = "random" -> SeqToSet(tc_participants)
      [] tc_strategy = "moderated" ->
            {IF tc_moderator_id # None THEN tc_moderator_id ELSE tc_participants[1]}
      [] tc_strategy = "free_form" -> {MinByCount(tc_participants, tc_counts)}

\* _record_turn: append to the history, then count; the count of an id that
\* is no key of participant_turn_counts is a KeyError after the append.
record_turn(turn, op) ==
    /\ tc_turn_history' = Append(tc_turn_history, turn)
    /\ IF turn.participant_id \in DOMAIN tc_counts
       THEN /\ tc_counts' = [tc_counts EXCEPT ![turn.participant_id] = @ + 1]
            /\ tc_turn_count' = tc_turn_count + 1
            /\ tc_call' = [op |-> op, raised |-> FALSE]
       ELSE /\ tc_call' = [op |-> op, raised |-> TRUE]
            /\ UNCHANGED <<tc_counts, tc_turn_count>>

get_next_turn ==
    /\ Len(tc_turn_history) < MaxTcTurns
    /\ IF tc_strategy = "debate" /\ DebateConfigured /\ DebateKeyError
       THEN /\ tc_call' = [op |-> "get_next_turn", raised |-> TRUE]
            /\ UNCHANGED <<tc_turn_history, tc_counts, tc_turn_count, tc_rr_index>>
       ELSE \E pid \in NextTurnChoices :
              /\ tc_rr_index' = IF UsesRoundRobin
                                THEN NextRoundRobinIndex(tc_rr_index, Len(tc_participants))
                                ELSE tc_rr_index
              /\ record_turn(Turn(pid, tc_turn_count, tc_strategy), "get_next_turn")
    /\ UNCHANGED <<tc_participants, tc_strategy, tc_moderator_id,
                   tc_side_a, tc_side_b, tc_priority>>

assign_turn(pid) ==
    /\ Len(tc_turn_history) < MaxTcTurns
    /\ IF pid \notin SeqToSet(tc_participants)
       THEN /\ tc_call' = [op |-> "assign_turn", raised |-> TRUE]
            /\ UNCHANGED <<tc_turn_history, tc_counts, tc_turn_count>>
       ELSE record_turn(Turn(pid, tc_turn_count, "moderated"), "assign_turn")
    /\ UNCHANGED <<tc_participants, tc_strategy, tc_moderator_id, tc_rr_index,
                   tc_side_a, tc_side_b, tc_priority>>

\* setup_debate only warns outside the debate strategy and stores the sides
\* as given, unvalidated.  The model explores one setup per coordinator.
setup_debate(side_a, side_b) ==
    /\ tc_side_a = <<>> /\ tc_side_b = <<>>
    /\ tc_side_a' = side_a
    /\ tc_side_b' = side_b
    /\ tc_call' = [op |-> "setup_debate", raised |-> FALSE]
    /\ UNCHANGED <<tc_participants, tc_strategy, tc_moderator_id, tc_turn_count,
                   tc_turn_history, tc_counts, tc_rr_index, tc_priority>>

\* set_priority; the model explores one participant's score leaving the
\* constructor's 1.0 per coordinator.
set_priority(pid, priority) ==
    /\ IF pid \notin SeqToSet(tc_participants)
       THEN /\ tc_call' = [op |-> "set_priority", raised |-> TRUE]
            /\ UNCHANGED tc_priority
       ELSE /\ \A p \in DOMAIN tc_priority : tc_priority[p] = 1
            /\ tc_priority' = [tc_priority EXCEPT ![pid] = priority]
            /\ tc_call' = [op |-> "set_priority", raised |-> FALSE]
    /\ UNCHANGED <<tc_participants, tc_strategy, tc_moderator_id, tc_turn_count,
                   tc_turn_history, tc_counts, tc_rr_index, tc_side_a, tc_side_b>>

\* _calculate_fairness_variance times n^2: n * sum(c^2) - (sum c)^2, which
\* is 0 exactly when the variance sum((c - mean)^2) / n is.
RECURSIVE SumSquares(_, _)
SumSquares(side, counts) ==
    IF side = <<>> THEN 0
    ELSE counts[Head(side)] * counts[Head(side)] + SumSquares(Tail(side), counts)

FairnessVarianceScaled ==
    LET n == Len(tc_participants)
        total == SumCounts(tc_participants, tc_counts)
    IN IF n = 0 THEN 0
       ELSE n * SumSquares(tc_participants, tc_counts) - total * total

TurnNext ==
    \/ get_next_turn /\ UNCHANGED <<sm_vars, r_vars, rt_vars, f_vars, cs_vars, ce_vars, o_vars, j_vars>>
    \/ (\E pid \in TcCallerIds : assign_turn(pid)) /\ UNCHANGED <<sm_vars, r_vars, rt_vars, f_vars, cs_vars, ce_vars, o_vars, j_vars>>
    \/ (\E s \in DebateSetups : setup_debate(s[1], s[2])) /\ UNCHANGED <<sm_vars, r_vars, rt_vars, f_vars, cs_vars, ce_vars, o_vars, j_vars>>
    \/ (\E pid \in TcCallerIds, pr \in Priorities : set_priority(pid, pr))
          /\ UNCHANGED <<sm_vars, r_vars, rt_vars, f_vars, cs_vars, ce_vars, o_vars, j_vars>>

\* The coordinator the other specifications leave untouched.
TurnIdle == TurnCoordinatorInit(<<"A", "B">>, "round_robin", None)

(***************************************************************************)
(* ProviderProfilesStore and ProviderRouter.send_message                   *)
(***************************************************************************)
DEFAULT_MAX_RETRIES == 1

\* The profile registry in dict order: the default profiles and one api_key
\* profile added with upsert.
Profiles == <<
    [id |-> "anthropic:default", provider |-> "anthropic", auth_mode |-> "cli_oauth",
     command |-> "claude"],
    [id |-> "openai:default", provider |-> "openai", auth_mode |-> "cli_oauth",
     command |-> "codex"],
    [id |-> "local:gpt-oss", provider |-> "local", auth_mode |-> "openai_compatible",
     command |-> ""],
    [id |-> "mock:default", provider |-> "mock", auth_mode |-> "mock", command |-> ""],
    [id |-> "anthropic:work", provider |-> "anthropic", auth_mode |-> "api_key",
     command |-> ""] >>

ProfileIds == {Profiles[i].id : i \in 1..Len(Profiles)}
NoProfile == [id |-> None, provider |-> None, auth_mode |-> None, command |-> ""]

\* The sets of enabled profiles the store is explored with.
EnabledSets == {ProfileIds,
                ProfileIds \ {"anthropic:default"},
                ProfileIds \ {"anthropic:default", "anthropic:work", "mock:default"}}

Providers == {"anthropic", "openai", "local"}
Models == {"opus", "Opus4.6 ", "gpt-5.2-codex"}

\* model.strip().lower() on the model names of the model.
NormalizedKey(model) ==
    CASE model = "Opus4.6 " -> "opus4.6"
      [] OTHER -> model

\* MODEL_ALIASES
ModelAliases(provider) ==
    CASE provider = "openai" ->
            [k \in {"gpt5.3-codex", "gpt-5.3-codex", "gpt5.2-codex"} |-> "gpt-5.2-codex"]
      [] provider = "anthropic" -> [k \in {"opus4.6", "opus4.5"} |-> "opus"]
      [] OTHER -> [k \in {} |-> ""]

resolve_model_alias(provider, model) ==
    LET alias_map == ModelAliases(provider)
        key == NormalizedKey(model)
    IN IF key \in DOMAIN alias_map THEN alias_map[key] ELSE model

\* Payload fields.  options is absent, a string, or a dict with a
\* temperature whose max_retries is absent (None), a string or an integer;
\* context is absent, a non-empty dict or a string; mentions is absent or a
\* non-empty list.
NoRetries == [type |-> "absent", value |-> 0]
RawRetries == {NoRetries, [type |-> "str", value |-> 0]}
              \cup {[type |-> "int", value |-> x] : x \in {-1, 0, 2, 5}}
OptionsValues == {[kind |-> "absent", max_retries |-> NoRetries],
                  [kind |-> "str", max_retries |-> NoRetries]}
                 \cup {[kind |-> "dict", max_retries |-> x] : x \in RawRetries}
PayloadExtras == {[context |-> "absent", mentions |-> "absent"],
                  [context |-> "dict", mentions |-> "list"],
                  [context |-> "str", mentions |-> "absent"]}
PayloadProfileIds == {None, "anthropic:work", "local:gpt-oss"}
Payloads == {[profile_id |-> pid, options |-> o, context |-> e.context,
              mentions |-> e.mentions] :
                pid \in PayloadProfileIds, o \in OptionsValues, e \in PayloadExtras}

\* isinstance(raw_retries, int)
IsInt(x) == x.type = "int"

\* The first enabled profile of the provider in dict order, or NoProfile.
FirstEnabledOf(provider, enabled) ==
    LET hits == {i \in 1..Len(Profiles) :
                    Profiles[i].id \in enabled /\ Profiles[i].provider = provider}
    IN IF hits = {} THEN NoProfile
       ELSE Profiles[CHOOSE i \in hits : \A j \in hits : i <= j]

ProfileById(id) ==
    IF id \in ProfileIds
    THEN Profiles[CHOOSE i \in 1..Len(Profiles) : Profiles[i].id = id]
    ELSE NoProfile

\* ProviderProfilesStore.resolve; enabled profile ids are of the form
\* "{provider}:default" exactly for the three default profiles.
DefaultId(provider) ==
    CASE provider = "anthropic" -> "anthropic:default"
      [] provider = "openai" -> "openai:default"
      [] provider = "mock" -> "mock:default"
      [] OTHER -> None

resolve(provider, profile_id, enabled) ==
    IF profile_id # None
    THEN IF profile_id \in ProfileIds /\ profile_id \in enabled
         THEN ProfileById(profile_id) ELSE NoProfile
    ELSE IF DefaultId(provider) \in enabled
         THEN ProfileById(DefaultId(provider))
         ELSE FirstEnabledOf(provider, enabled)

\* min(3, value) without the lower bound.
ClampRetriesUpperOnly(x) == IF x > 3 THEN 3 ELSE x

\* max_retries of send_message: the default unless options is a dict whose
\* max_retries is an int, then max(0, min(3, value)).
ClampRetries(x) == IF x < 0 THEN 0 ELSE IF x > 3 THEN 3 ELSE x

EffectiveMaxRetries(options) ==
    IF options.kind = "dict" /\ IsInt(options.max_retries)
    THEN ClampRetries(options.max_retries.value)
    ELSE DEFAULT_MAX_RETRIES

\* _invoke_mock copies the payload into meta with list(mentions),
\* dict(context) and dict(options): dict() of a non-empty string raises.
MockRaises(payload) == payload.context = "str" \/ payload.options.kind = "str"

MockMeta(profile, payload, error) ==
    [auth_mode |-> IF profile = NoProfile THEN "mock" ELSE profile.auth_mode,
     profile_id |-> profile.id,
     provider_profile |-> IF profile = NoProfile THEN "mock" ELSE profile.provider,
     bridge |-> "mock"]
    @@ (IF error # None THEN [error |-> error] ELSE <<>>)
    @@ (IF payload.mentions = "list" THEN [mentions |-> "list"] ELSE <<>>)
    @@ (IF payload.context = "dict" THEN [context |-> "dict"] ELSE <<>>)
    @@ (IF payload.options.kind = "dict" THEN [options |-> "dict"] ELSE <<>>)

\* The string _invoke_mock answers with: "[mock-fallback provider:model] ..."
\* with an error, "[mock provider:model] ..." without.
MockContent(provider, model, error) ==
    [marker |-> IF error # None THEN "[mock-fallback" ELSE "[mock",
     provider |-> provider, model |-> model, error |-> error]

\* _invoke_mock, for a payload it does not raise on.
invoke_mock(profile, provider, model, payload, error) ==
    [content |-> MockContent(provider, model, error),
     artifacts |-> <<>>,
     meta |-> MockMeta(profile, payload, error)]

\* What a backend attempt can do.  The mock backend is deterministic; the
\* api_key backend supports only openai and anthropic; a CLI, an HTTP client
\* can answer, fail or time out; the codex CLI can answer with warnings.
BackendOutcomes(profile, provider, payload) ==
    CASE profile.auth_mode = "mock" ->
            IF MockRaises(payload) THEN {"exception"} ELSE {"ok"}
      [] profile.auth_mode = "api_key" /\ provider \notin {"openai", "anthropic"} ->
            {"exception"}
      [] profile.auth_mode = "cli_oauth" /\ profile.command = "codex" ->
            {"ok", "ok_with_warnings", "exception", "timeout"}
      [] OTHER -> {"ok", "exception", "timeout"}

\* f"{type(exc).__name__}: {exc}"
ErrorString(outcome) ==
    IF outcome = "timeout" THEN "TimeoutExpired: timed out" ELSE "RuntimeError: failed"

\* The response of a backend attempt that succeeded, before send_message
\* stamps it.
BackendResult(profile, provider, resolved_model, payload, outcome) ==
    CASE profile.auth_mode = "mock" ->
            invoke_mock(profile, provider, resolved_model, payload, None)
      [] profile.auth_mode = "cli_oauth" ->
            [content |-> [marker |-> "text", provider |-> provider,
                          model |-> resolved_model, error |-> None],
             artifacts |-> <<>>,
             meta |-> [auth_mode |-> profile.auth_mode, profile_id |-> profile.id,
                       provider_profile |-> profile.provider,
                       bridge |-> "subscription_cli", cli_command |-> profile.command]
                      @@ (IF profile.command = "codex"
                          THEN [warnings |-> IF outcome = "ok_with_warnings"
                                             THEN <<"cli warning">> ELSE <<>>]
                          ELSE <<>>)]
      [] OTHER ->
            [content |-> [marker |-> "text", provider |-> provider,
                          model |-> resolved_model, error |-> None],
             artifacts |-> <<>>,
             meta |-> [auth_mode |-> profile.auth_mode, profile_id |-> profile.id,
                       provider_profile |-> profile.provider]]

\* The stamps send_message puts on a successful attempt's meta.
SuccessMeta(meta, model, resolved_model, attempt, errors, latency) ==
    (IF errors # <<>> THEN [warnings |-> errors] ELSE <<>>)
    @@ [attempt |-> attempt + 1, retries |-> attempt, latency_ms |-> latency,
        degraded |-> attempt > 0]
    @@ (IF resolved_model # model
        THEN [requested_model |-> model, resolved_model |-> resolved_model]
        ELSE <<>>)
    @@ meta

\* The stamps send_message puts on the fallback's meta once retries ran out.
DegradedMeta(meta, attempt, errors, latency) ==
    [attempt |-> attempt + 1, retries |-> attempt, latency_ms |-> latency,
     degraded |-> TRUE, warnings |-> errors]
    @@ meta

NoContent == [marker |-> None, provider |-> None, model |-> None, error |-> None]
NoResponse == [content |-> NoContent, artifacts |-> <<>>, meta |-> <<>>]
NoRequest == [provider |-> None, model |-> None,
              payload |-> [profile_id |-> None,
                           options |-> [kind |-> "absent", max_retries |-> NoRetries],
                           context |-> "absent", mentions |-> "absent"]]

RouterIdle ==
    /\ r_pc = "idle"
    /\ r_request = NoRequest
    /\ r_profile = NoProfile
    /\ r_max_retries = DEFAULT_MAX_RETRIES
    /\ r_attempt = 0
    /\ r_errors = <<>>
    /\ r_outcomes = <<>>
    /\ r_response = NoResponse

RouterInit ==
    /\ r_enabled \in EnabledSets
    /\ RouterIdle

\* send_message up to its first backend attempt: profile resolution, the
\* no-profile mock answer, the options, the alias.
send_message(provider, model, payload) ==
    /\ r_pc = "idle"
    /\ r_request' = [provider |-> provider, model |-> model, payload |-> payload]
    /\ r_attempt' = 0
    /\ r_errors' = <<>>
    /\ r_outcomes' = <<>>
    /\ LET profile == resolve(provider, payload.profile_id, r_enabled)
           fallback == resolve("mock", None, r_enabled)
       IN /\ r_profile' = profile
          /\ IF profile = NoProfile
             THEN /\ r_max_retries' = DEFAULT_MAX_RETRIES
                  /\ IF MockRaises(payload)
                     THEN /\ r_pc' = "raised"
                          /\ r_response' = NoResponse
                     ELSE /\ r_pc' = "returned"
                          /\ r_response' = invoke_mock(fallback, provider, model, payload,
                                                       "No enabled profile found")
             ELSE /\ r_max_retries' = EffectiveMaxRetries(payload.options)
                  /\ r_pc' = "attempting"
                  /\ r_response' = NoResponse
    /\ UNCHANGED r_enabled

\* One pass of the retry loop: the backend attempt and what send_message
\* does with its result or its exception.
send_message_attempt(outcome, latency) ==
    /\ r_pc = "attempting"
    /\ outcome \in BackendOutcomes(r_profile, r_request.provider, r_request.payload)
    /\ r_outcomes' = Append(r_outcomes, outcome)
    /\ LET provider == r_request.provider
           model == r_request.model
           payload == r_request.payload
           resolved_model == resolve_model_alias(provider, model)
           errors == Append(r_errors, ErrorString(outcome))
           fallback == resolve("mock", None, r_enabled)
       IN IF outcome \in {"ok", "ok_with_warnings"}
          THEN LET result == BackendResult(r_profile, provider, resolved_model,
                                           payload, outcome)
               IN /\ r_response' = [result EXCEPT !.meta =
                                       SuccessMeta(@, model, resolved_model,
                                                   r_attempt, r_errors, latency)]
                  /\ r_pc' = "returned"
                  /\ UNCHANGED <<r_attempt, r_errors>>
          ELSE /\ r_errors' = errors
               /\ IF r_attempt < r_max_retries
                  THEN /\ r_attempt' = r_attempt + 1
                       /\ UNCHANGED <<r_pc, r_response>>
                  ELSE /\ UNCHANGED r_attempt
                       /\ IF MockRaises(payload)
                          THEN /\ r_pc' = "raised"
                               /\ UNCHANGED r_response
                          ELSE /\ r_pc' = "returned"
                               /\ r_response' =
                                    LET degraded == invoke_mock(fallback, provider, model,
                                                                payload, errors[Len(errors)])
                                    IN [degraded EXCEPT !.meta =
                                           DegradedMeta(@, r_attempt, errors, latency)]
    /\ UNCHANGED <<r_enabled, r_request, r_profile, r_max_retries>>

RouterNext ==
    \/ (\E provider \in Providers, model \in Models, payload \in Payloads :
            send_message(provider, model, payload)) /\ UNCHANGED <<sm_vars, tc_vars, rt_vars, f_vars, cs_vars, ce_vars, o_vars, j_vars>>
    \/ (\E outcome \in {"ok", "ok_with_warnings", "exception", "timeout"},
           latency \in 0..MaxLatencyMs :
            send_message_attempt(outcome, latency)) /\ UNCHANGED <<sm_vars, tc_vars, rt_vars, f_vars, cs_vars, ce_vars, o_vars, j_vars>>

(***************************************************************************)
(* ProviderRouter's CLI session-affinity map, shared by concurrent calls   *)
(***************************************************************************)
\* The threads that call send_message on the one router.
Threads == {"t1", "t2"}

\* context["session_id"] as callers pass it.
RawSessionIds == {None, " ", "s1", " s1"}

\* The ids a CLI run reports (thread.started's thread_id, the result's
\* session_id); None when the run reports none.
EventSessionIds == {None, "c1", "c2", " c1"}

\* str.strip on the strings of the model.
Strip(s) ==
    CASE s = " " -> ""
      [] s = " s1" -> "s1"
      [] s = " c1" -> "c1"
      [] OTHER -> s

\* `x or ""`
OrEmpty(x) == IF x = None THEN "" ELSE x

\* `str(x or "").strip() or None`
StrippedOrNone(x) == IF Strip(OrEmpty(x)) = "" THEN None ELSE Strip(OrEmpty(x))

\* _cli_session_key
cli_session_key(provider, model, profile_id, scribe_session_id) ==
    provider \o "|" \o model \o "|" \o profile_id \o "|" \o OrEmpty(scribe_session_id)

\* The keys the calls of the model produce.
CliSessionKeys ==
    {cli_session_key("openai", "gpt-5.2-codex", "openai:default", StrippedOrNone(raw)) :
        raw \in RawSessionIds}

\* A map without entries.
NoSessions == [k \in CliSessionKeys |-> None]

\* The files a router leaves behind: none, or a saved map.
SessionFiles ==
    {NoSessions,
     [NoSessions EXCEPT ![cli_session_key("openai", "gpt-5.2-codex", "openai:default", "s1")] = "c1"]}

\* _load_cli_sessions: the entries of the file whose value is not blank.
load_cli_sessions(file) ==
    [k \in DOMAIN file |-> IF Strip(OrEmpty(file[k])) = "" THEN None ELSE file[k]]

ThreadIdle == [pc |-> "idle", key |-> None, prior |-> None, resolved |-> None,
               reported |-> None, result |-> "none"]

SessionIdle ==
    /\ cs_sessions = NoSessions
    /\ cs_persisted = NoSessions
    /\ cs_lock = None
    /\ cs_thread = [t \in Threads |-> ThreadIdle]
    /\ cs_reported = NoSessions

\* ProviderRouter.__init__: the map is loaded from the file.
SessionInit ==
    /\ cs_persisted \in SessionFiles
    /\ cs_sessions = load_cli_sessions(cs_persisted)
    /\ cs_lock = None
    /\ cs_thread = [t \in Threads |-> ThreadIdle]
    /\ cs_reported = NoSessions

\* `with self._cli_sessions_lock` is entered without waiting for the lock.
LockIgnored == TRUE

\* `with self._cli_sessions_lock` can be entered: no thread holds the lock.
LockAvailable == cs_lock = None

\* The call of thread t ends; an id its CLI run reported is the one reported
\* last for its key.
FinishCall(t, result) ==
    /\ cs_thread' = [cs_thread EXCEPT ![t] = [ThreadIdle EXCEPT !.result = result]]
    /\ cs_reported' =
          IF result = "ok" /\ cs_thread[t].reported # None
          THEN [cs_reported EXCEPT ![cs_thread[t].key] = StrippedOrNone(cs_thread[t].reported)]
          ELSE cs_reported

\* _invoke_cli_oauth up to the CLI run: a command that is not on PATH raises;
\* otherwise _get_cli_session reads the key's entry under the lock.
invoke_cli_oauth(t, raw_session_id, on_path) ==
    /\ cs_thread[t].pc = "idle"
    /\ IF ~on_path
       THEN /\ FinishCall(t, "raised")
            /\ UNCHANGED <<cs_sessions, cs_persisted, cs_lock>>
       ELSE /\ LockAvailable
            /\ LET key == cli_session_key("openai", "gpt-5.2-codex", "openai:default",
                                          StrippedOrNone(raw_session_id))
               IN cs_thread' = [cs_thread EXCEPT ![t] =
                      [pc |-> "running", key |-> key, prior |-> cs_sessions[key],
                       resolved |-> None, reported |-> None, result |-> "none"]]
            /\ UNCHANGED <<cs_sessions, cs_persisted, cs_lock, cs_reported>>

\* A CLI run that would store the id of its thread.started event in the map
\* before it raises.
run_codex_cli_store_first(t, failed, thread_id) ==
    /\ cs_thread[t].pc = "running"
    /\ IF failed
       THEN /\ FinishCall(t, "raised")
            /\ cs_sessions' = IF StrippedOrNone(thread_id) # None
                              THEN [cs_sessions EXCEPT ![cs_thread[t].key] = StrippedOrNone(thread_id)]
                              ELSE cs_sessions
       ELSE LET prior == cs_thread[t].prior
                meta_thread_id == IF OrEmpty(thread_id) # "" THEN thread_id ELSE prior
                resolved == StrippedOrNone(IF OrEmpty(meta_thread_id) # ""
                                           THEN meta_thread_id ELSE prior)
            IN /\ cs_thread' = [cs_thread EXCEPT ![t].pc = "returned",
                                                 ![t].resolved = resolved,
                                                 ![t].reported = thread_id]
               /\ UNCHANGED <<cs_reported, cs_sessions>>
    /\ UNCHANGED <<cs_persisted, cs_lock>>

\* _run_codex_cli returns or raises: meta["thread_id"] is the id of the
\* thread.started event or else the resumed id, and resolved_cli_session
\* is computed from it.
run_codex_cli(t, failed, thread_id) ==
    /\ cs_thread[t].pc = "running"
    /\ IF failed
       THEN FinishCall(t, "raised")
       ELSE LET prior == cs_thread[t].prior
                meta_thread_id == IF OrEmpty(thread_id) # "" THEN thread_id ELSE prior
                resolved == StrippedOrNone(IF OrEmpty(meta_thread_id) # ""
                                           THEN meta_thread_id ELSE prior)
            IN /\ cs_thread' = [cs_thread EXCEPT ![t].pc = "returned",
                                                 ![t].resolved = resolved,
                                                 ![t].reported = thread_id]
               /\ UNCHANGED cs_reported
    /\ UNCHANGED <<cs_sessions, cs_persisted, cs_lock>>

\* _set_cli_session is called: without an id it returns and the call ends,
\* with one it takes the lock.
set_cli_session_enter(t) ==
    /\ cs_thread[t].pc = "returned"
    /\ IF cs_thread[t].resolved = None
       THEN /\ FinishCall(t, "ok")
            /\ UNCHANGED cs_lock
       ELSE /\ LockAvailable
            /\ cs_lock' = t
            /\ cs_thread' = [cs_thread EXCEPT ![t].pc = "locked"]
            /\ UNCHANGED cs_reported
    /\ UNCHANGED <<cs_sessions, cs_persisted>>

\* self._cli_sessions[key] = cli_session_id
set_cli_session_update(t) ==
    /\ cs_thread[t].pc = "locked"
    /\ cs_sessions' = [cs_sessions EXCEPT ![cs_thread[t].key] = cs_thread[t].resolved]
    /\ cs_thread' = [cs_thread EXCEPT ![t].pc = "updated"]
    /\ UNCHANGED <<cs_persisted, cs_lock, cs_reported>>

\* _save_cli_sessions: the whole map is written to the file.
save_cli_sessions(t) ==
    /\ cs_thread[t].pc = "updated"
    /\ cs_persisted' = cs_sessions
    /\ cs_thread' = [cs_thread EXCEPT ![t].pc = "saved"]
    /\ UNCHANGED <<cs_sessions, cs_lock, cs_reported>>

\* The with block of _set_cli_session is left, and _invoke_cli_oauth returns.
set_cli_session_exit(t) ==
    /\ cs_thread[t].pc = "saved"
    /\ cs_lock' = None
    /\ FinishCall(t, "ok")
    /\ UNCHANGED <<cs_sessions, cs_persisted>>

SessionNext ==
    \/ (\E t \in Threads, raw \in RawSessionIds, on_path \in BOOLEAN :
            invoke_cli_oauth(t, raw, on_path))
          /\ UNCHANGED <<sm_vars, tc_vars, r_vars, rt_vars, f_vars, ce_vars, o_vars, j_vars>>
    \/ (\E t \in Threads, failed \in BOOLEAN, thread_id \in EventSessionIds :
            run_codex_cli(t, failed, thread_id))
          /\ UNCHANGED <<sm_vars, tc_vars, r_vars, rt_vars, f_vars, ce_vars, o_vars, j_vars>>
    \/ (\E t \in Threads : set_cli_session_enter(t))
          /\ UNCHANGED <<sm_vars, tc_vars, r_vars, rt_vars, f_vars, ce_vars, o_vars, j_vars>>
    \/ (\E t \in Threads : set_cli_session_update(t))
          /\ UNCHANGED <<sm_vars, tc_vars, r_vars, rt_vars, f_vars, ce_vars, o_vars, j_vars>>
    \/ (\E t \in Threads : save_cli_sessions(t))
          /\ UNCHANGED <<sm_vars, tc_vars, r_vars, rt_vars, f_vars, ce_vars, o_vars, j_vars>>
    \/ (\E t \in Threads : set_cli_session_exit(t))
          /\ UNCHANGED <<sm_vars, tc_vars, r_vars, rt_vars, f_vars, ce_vars, o_vars, j_vars>>

(***************************************************************************)
(* ConsensusEngine                                                         *)
(***************************************************************************)
\* A message content is a sequence of sentences; a sentence is its words
\* (lower case, separated by single spaces) and the mark that ends it.
Sentence(words, mark) == [words |-> words, mark |-> mark]

SentenceBase ==
    Sentence(<<"remote", "work", "improves", "focus", "and", "saves",
               "commuting", "time">>, ".")
SentenceHalf ==
    Sentence(<<"remote", "work", "improves", "morale", "in", "most", "teams">>, ".")
SentenceThreeOfTen ==
    Sentence(<<"remote", "work", "improves", "hiring", "reach", "across",
               "many", "cities", "every", "year">>, "!")
SentenceOther ==
    Sentence(<<"the", "economy", "needs", "review", "before", "next", "quarter">>, ".")
SentenceShort == Sentence(<<"remote", "work", "wins">>, ".")
SentenceQuestion ==
    Sentence(<<"does", "remote", "work", "improve", "focus", "for", "everyone">>, "?")

TextContent(sentences) == [kind |-> "str", sentences |-> sentences]
\* A message whose "content" key holds None.
NoneContent == [kind |-> "none", sentences |-> <<>>]

ConsensusMessage(pid, content) == [participant_id |-> pid, content |-> content]

\* The messages analysed.
ConsensusMessages ==
    {ConsensusMessage("A", TextContent(<<SentenceBase>>)),
     ConsensusMessage("A", TextContent(<<SentenceShort, SentenceQuestion>>)),
     ConsensusMessage("B", TextContent(<<SentenceHalf>>)),
     ConsensusMessage("B", TextContent(<<SentenceThreeOfTen>>)),
     ConsensusMessage("B", TextContent(<<SentenceOther>>)),
     ConsensusMessage("C", TextContent(<<SentenceHalf>>)),
     ConsensusMessage("C", TextContent(<<SentenceThreeOfTen>>)),
     ConsensusMessage("C", NoneContent)}

ConsensusRosters == {<<>>, <<"A", "B">>, <<"A", "B", "C">>}

\* consensus_threshold in percent: 0.0, 0.6, 1.0.
ConsensusThresholds == {0, 60, 100}

\* set(re.findall(r'\w+', statement.lower()))
WordsOf(statement) == {statement[i] : i \in 1..Len(statement)}

StopWords == {"the", "a", "an", "and", "or", "but", "in", "on", "at"}

\* key_terms of _detect_agreement
KeyTerms(statement) == WordsOf(statement) \ StopWords

RECURSIVE SumWordLen(_)
SumWordLen(words) ==
    IF words = <<>> THEN 0 ELSE Len(Head(words)) + SumWordLen(Tail(words))

\* len(sentence) of the stripped text between two marks.
CharLen(words) == IF words = <<>> THEN 0 ELSE SumWordLen(words) + Len(words) - 1

\* sentence.endswith('?'): re.split has removed the marks, no piece ends
\* with one.
EndsWithQuestionMark(words) == FALSE

\* re.split(r'[.!?]+', content), stripped: the words of each sentence.
SplitSentences(content) == [i \in 1..Len(content.sentences) |-> content.sentences[i].words]

\* _extract_statements
extract_statements(content) ==
    SelectSeq(SplitSentences(content),
              LAMBDA s : CharLen(s) > 20 /\ ~EndsWithQuestionMark(s))

\* The participants in roster order, each once: the keys of the positions
\* dict.
RECURSIVE RosterKeys(_)
RosterKeys(roster) ==
    IF roster = <<>> THEN <<>>
    ELSE LET rest == RosterKeys(SubSeq(roster, 1, Len(roster) - 1))
             last == roster[Len(roster)]
         IN IF last \in {rest[i] : i \in 1..Len(rest)} THEN rest ELSE Append(rest, last)

\* _extract_positions, for one participant of the roster.
RECURSIVE PositionsOf(_, _)
PositionsOf(pid, messages) ==
    IF messages = <<>> THEN <<>>
    ELSE LET msg == Head(messages)
         IN (IF msg.participant_id = pid THEN extract_statements(msg.content) ELSE <<>>)
            \o PositionsOf(pid, Tail(messages))

\* all_statements of _detect_agreement: (participant, statement) pairs in
\* the order of the positions dict.
RECURSIVE AllStatements(_, _)
AllStatements(keys, messages) ==
    IF keys = <<>> THEN <<>>
    ELSE LET own == PositionsOf(Head(keys), messages)
         IN [i \in 1..Len(own) |-> <<Head(keys), own[i]>>]
            \o AllStatements(Tail(keys), messages)

\* `overlap > 0.3`, overlap being
\* len(key_terms & group_terms) / max(len(key_terms), 1).
OverlapExceeds(key_terms, group_key) ==
    10 * Cardinality(key_terms \cap WordsOf(group_key))
        > 3 * (IF key_terms = {} THEN 1 ELSE Cardinality(key_terms))

\* One round of the grouping loop: the statement joins the first group it
\* overlaps, or becomes (or resets) the group under its own text.
GroupStatement(groups, pid, statement) ==
    LET matching == {i \in 1..Len(groups) : OverlapExceeds(KeyTerms(statement), groups[i].key)}
        same == {i \in 1..Len(groups) : groups[i].key = statement}
    IN IF matching # {}
       THEN LET g == CHOOSE i \in matching : \A j \in matching : i <= j
            IN [groups EXCEPT ![g].supporters = @ \cup {pid}]
       ELSE IF same # {}
       THEN [groups EXCEPT ![CHOOSE i \in same : TRUE].supporters = {pid}]
       ELSE Append(groups, [key |-> statement, supporters |-> {pid}])

\* statement_groups after the loop over all_statements.
RECURSIVE StatementGroups(_)
StatementGroups(statements) ==
    IF statements = <<>> THEN <<>>
    ELSE LET last == statements[Len(statements)]
         IN GroupStatement(StatementGroups(SubSeq(statements, 1, Len(statements) - 1)),
                           last[1], last[2])

\* min_support = max(2, int(len(self.participants) * self.consensus_threshold))
MinSupport ==
    IF (Len(ce_participants) * ce_threshold) \div 100 > 2
    THEN (Len(ce_participants) * ce_threshold) \div 100
    ELSE 2

\* ConsensusPoint; confidence is the fraction <<numerator, denominator>>.
ConsensusPoint(statement, supporters, now) ==
    [statement |-> statement, supporting_participants |-> supporters,
     confidence |-> <<Cardinality(supporters), Len(ce_participants)>>,
     detected_at |-> now]

\* _detect_agreement that returns the tracked points with the detected ones.
detect_agreement_accumulating(messages, now) ==
    LET groups == SelectSeq(StatementGroups(AllStatements(RosterKeys(ce_participants), messages)),
                            LAMBDA g : Cardinality(g.supporters) >= MinSupport)
    IN ce_consensus_points
       \o [i \in 1..Len(groups) |-> ConsensusPoint(groups[i].key, groups[i].supporters, now)]

\* _extract_positions and _detect_agreement
detect_agreement(messages, now) ==
    LET groups == SelectSeq(StatementGroups(AllStatements(RosterKeys(ce_participants), messages)),
                            LAMBDA g : Cardinality(g.supporters) >= MinSupport)
    IN [i \in 1..Len(groups) |-> ConsensusPoint(groups[i].key, groups[i].supporters, now)]

\* `keyword in sentence.lower()` for some disagreement keyword: of the words
\* of the model only "economy" holds one ("no").
HoldsDisagreementKeyword(words) == "economy" \in WordsOf(words)

\* _detect_disagreement
RECURSIVE detect_disagreement(_)
detect_disagreement(messages) ==
    IF messages = <<>> THEN <<>>
    ELSE SelectSeq(SplitSentences(Head(messages).content), HoldsDisagreementKeyword)
         \o detect_disagreement(Tail(messages))

RECURSIVE SumSupport(_)
SumSupport(points) ==
    IF points = <<>> THEN 0
    ELSE Cardinality(Head(points).supporting_participants) + SumSupport(Tail(points))

\* _calculate_consensus_level
calculate_consensus_level(points) ==
    LET total == Len(points) * Len(ce_participants)
    IN IF points = <<>> THEN "none"
       ELSE IF 10 * SumSupport(points) >= 9 * total THEN "unanimous"
       ELSE IF 100 * SumSupport(points) >= ce_threshold * total THEN "strong"
       ELSE IF 10 * SumSupport(points) >= 3 * total THEN "partial"
       ELSE "none"

\* sorted(consensus_points, key=len(supporting_participants), reverse=True)
RECURSIVE SortBySupport(_)
SortBySupport(points) ==
    IF points = <<>> THEN <<>>
    ELSE LET rest == SortBySupport(SubSeq(points, 1, Len(points) - 1))
             last == points[Len(points)]
             size(p) == Cardinality(p.supporting_participants)
             before == SelectSeq(rest, LAMBDA p : size(p) >= size(last))
             after == SelectSeq(rest, LAMBDA p : size(p) < size(last))
         IN before \o <<last>> \o after

NoSynthesis == [kind |-> "none", parts |-> <<>>]

\* _synthesize_position: the three best supported points, each with its
\* support in percent, rounded.
synthesize_position(points) ==
    LET sorted == SortBySupport(points)
        top == SubSeq(sorted, 1, IF Len(sorted) < 3 THEN Len(sorted) ELSE 3)
        n == Len(ce_participants)
    IN [kind |-> "text",
        parts |-> [i \in 1..Len(top) |->
                     [statement |-> top[i].statement,
                      support_pct |-> (200 * Cardinality(top[i].supporting_participants) + n)
                                          \div (2 * n)]]]

\* _calculate_confidence, as the fraction <<numerator, denominator>>.
calculate_confidence(points, messages) ==
    IF messages = <<>> \/ points = <<>> THEN <<0, 1>>
    ELSE LET n == Len(ce_participants)
             count == IF Len(messages) < 10 THEN Len(messages) ELSE 10
             unique == Cardinality({messages[i].participant_id : i \in 1..Len(messages)})
             den == 30 * Len(points) * n
             num == count * Len(points) * n + 10 * unique * Len(points)
                        + 10 * SumSupport(points)
         IN IF num > den THEN <<1, 1>> ELSE <<num, den>>

ConsensusResult(level, points, disagreements, synthesis, confidence) ==
    [level |-> level, consensus_points |-> points,
     areas_of_disagreement |-> disagreements, synthesis |-> synthesis,
     confidence |-> confidence]

NoResult == ConsensusResult("unset", <<>>, <<>>, NoSynthesis, <<0, 1>>)

\* The result for an empty list, with "No consensus reached." as synthesis.
EmptyResultSynthesized ==
    ConsensusResult("none", <<>>, <<>>, [kind |-> "text", parts |-> <<>>], <<0, 1>>)

\* The result analyze_messages returns for an empty list.
EmptyResult == ConsensusResult("none", <<>>, <<>>, NoSynthesis, <<0, 1>>)

\* A content of None makes _extract_positions (for a roster member) or
\* _detect_disagreement raise.
AnalysisRaises(messages) ==
    \E i \in 1..Len(messages) : messages[i].content.kind = "none"

\* The result of analyze_messages.
AnalysisResult(messages, now) ==
    IF messages = <<>> THEN EmptyResult
    ELSE LET points == detect_agreement(messages, now)
             level == calculate_consensus_level(points)
         IN ConsensusResult(level, points, detect_disagreement(messages),
                            IF level \in {"strong", "unanimous"}
                            THEN synthesize_position(points) ELSE NoSynthesis,
                            calculate_confidence(points, messages))

ConsensusIdle ==
    /\ ce_participants = <<>>
    /\ ce_threshold = 60
    /\ ce_consensus_points = <<>>
    /\ ce_messages = <<>>
    /\ ce_result = NoResult
    /\ ce_now = 0
    /\ ce_call = [op |-> "none", raised |-> FALSE]

\* ConsensusEngine.__init__, and the message list the caller holds.
ConsensusInit ==
    /\ ce_participants \in ConsensusRosters
    /\ ce_threshold \in ConsensusThresholds
    /\ ce_consensus_points = <<>>
    /\ ce_messages \in UNION {[1..n -> ConsensusMessages] : n \in 0..MaxCeMessages}
    /\ ce_result = NoResult
    /\ ce_now = 0
    /\ ce_call = [op |-> "none", raised |-> FALSE]

\* A sentence of stop words only: it has no key terms.
SentenceStopWords ==
    Sentence(<<"the", "and", "or", "in", "on", "at", "an", "a", "or", "the">>, ".")

\* The engines and message lists the clustering rules are explored with:
\* thresholds 0.6 and 0.9, two and three participants.
ClusteringMessages ==
    {ConsensusMessage("A", TextContent(<<SentenceBase>>)),
     ConsensusMessage("A", TextContent(<<SentenceShort, SentenceQuestion>>)),
     ConsensusMessage("A", TextContent(<<SentenceStopWords>>)),
     ConsensusMessage("B", TextContent(<<SentenceHalf>>)),
     ConsensusMessage("B", TextContent(<<SentenceStopWords>>)),
     ConsensusMessage("C", TextContent(<<SentenceThreeOfTen>>))}

ClusteringRosters == {<<"A", "B">>, <<"A", "B", "C">>}

ClusteringThresholds == {60, 90}

ClusteringInit ==
    /\ ce_participants \in ClusteringRosters
    /\ ce_threshold \in ClusteringThresholds
    /\ ce_consensus_points = <<>>
    /\ ce_messages \in UNION {[1..n -> ClusteringMessages] : n \in 0..MaxCeMessages}
    /\ ce_result = NoResult
    /\ ce_now = 0
    /\ ce_call = [op |-> "none", raised |-> FALSE]

\* analyze_messages on the caller's list, at the next instant of the clock.
analyze_messages ==
    /\ ce_now < MaxAnalyses
    /\ ce_now' = ce_now + 1
    /\ IF ce_messages # <<>> /\ AnalysisRaises(ce_messages)
       THEN /\ ce_call' = [op |-> "analyze_messages", raised |-> TRUE]
            /\ UNCHANGED ce_result
       ELSE /\ ce_call' = [op |-> "analyze_messages", raised |-> FALSE]
            /\ ce_result' = AnalysisResult(ce_messages, ce_now')
    /\ UNCHANGED <<ce_participants, ce_threshold, ce_consensus_points, ce_messages>>

\* track_consensus_point
track_consensus_point(point) ==
    /\ Len(ce_consensus_points) < MaxTracked
    /\ ce_consensus_points' = Append(ce_consensus_points, point)
    /\ ce_call' = [op |-> "track_consensus_point", raised |-> FALSE]
    /\ UNCHANGED <<ce_participants, ce_threshold, ce_messages, ce_result, ce_now>>

\* get_consensus_history returns a copy of the tracked points.
get_consensus_history ==
    /\ ce_call' = [op |-> "get_consensus_history", raised |-> FALSE]
    /\ UNCHANGED <<ce_participants, ce_threshold, ce_consensus_points, ce_messages,
                   ce_result, ce_now>>

ConsensusNext ==
    \/ analyze_messages
          /\ UNCHANGED <<sm_vars, tc_vars, r_vars, rt_vars, f_vars, cs_vars, o_vars, j_vars>>
    \/ (\E i \in 1..Len(ce_result.consensus_points) :
            track_consensus_point(ce_result.consensus_points[i]))
          /\ UNCHANGED <<sm_vars, tc_vars, r_vars, rt_vars, f_vars, cs_vars, o_vars, j_vars>>
    \/ get_consensus_history
          /\ UNCHANGED <<sm_vars, tc_vars, r_vars, rt_vars, f_vars, cs_vars, o_vars, j_vars>>

(***************************************************************************)
(* AnthropicAgentRuntime.run                                               *)
(***************************************************************************)
max_tool_iterations == 4

\* Messages are [role, blocks]; content_blocks() of a text message is one
\* text block.
TextMessage(role) == [role |-> role, blocks |-> <<[type |-> "text"]>>]

\* The conversations run is called with: empty, one user message, a user
\* and an assistant message, a lone system message.
Conversations == {<<>>,
                  <<TextMessage("user")>>,
                  <<TextMessage("user"), TextMessage("assistant")>>,
                  <<TextMessage("system")>>}
Systems == {None, "", "be brief"}

\* max_tool_iterations of run: None or an int.
IterationCaps == {[given |-> FALSE, value |-> 0]}
                 \cup {[given |-> TRUE, value |-> v] : v \in {0, 1, 2, 3}}

\* The runtime registers "weather", whose handler answers, and "boom",
\* whose handler raises; the backend may also ask for "search".
RegisteredTools == {"weather", "boom"}
HandlerRaises(name) == name = "boom"
ToolCallNames == {<<"weather">>, <<"boom">>, <<"search">>, <<"weather", "search">>}

\* What a backend call can give: an HTTP failure, a response without tool
\* calls, a response with tool_use blocks.
BackendResponses ==
    {[failed |-> TRUE, names |-> <<>>, stop_reason |-> None]}
    \cup {[failed |-> FALSE, names |-> <<>>, stop_reason |-> s] :
            s \in {"end_turn", "max_tokens", None}}
    \cup {[failed |-> FALSE, names |-> n, stop_reason |-> "tool_use"] :
            n \in ToolCallNames}

RECURSIVE CallsRequested(_)
\* The number of tool calls in a sequence of responses.
CallsRequested(responses) ==
    IF responses = <<>> THEN 0
    ELSE Len(Head(responses).tool_calls) + CallsRequested(Tail(responses))

\* _normalise_response: one ToolCall per tool_use block; the backend gives
\* every call a fresh id.
NormaliseResponse(response, first_id) ==
    [tool_calls |-> [i \in 1..Len(response.names) |->
                        [id |-> first_id + i - 1, name |-> response.names[i]]],
     stop_reason |-> response.stop_reason]

\* _assistant_message_from_result: the content blocks, else the text.
AssistantMessage(result) ==
    IF result.tool_calls = <<>>
    THEN TextMessage("assistant")
    ELSE [role |-> "assistant",
          blocks |-> <<[type |-> "text"]>> \o
                     [i \in 1..Len(result.tool_calls) |->
                        [type |-> "tool_use", id |-> result.tool_calls[i].id,
                         name |-> result.tool_calls[i].name]]]

\* An _execute_tool that would pass a missing handler off as a success.
ExecuteToolMissingOk(call) ==
    [call |-> call,
     result |-> [content |-> "text", is_error |-> HandlerRaises(call.name)]]

\* _execute_tool: a missing handler and a raising handler give an error
\* result, a handler's answer is normalised to a ToolExecutionResult.
ExecuteTool(call) ==
    IF call.name \notin RegisteredTools
    THEN [call |-> call, result |-> [content |-> "not registered", is_error |-> TRUE]]
    ELSE IF HandlerRaises(call.name)
         THEN [call |-> call, result |-> [content |-> "exception", is_error |-> TRUE]]
         ELSE [call |-> call, result |-> [content |-> "text", is_error |-> FALSE]]

\* A _tool_result_block that would lose the id of the call.
ToolResultBlockNoId(call_id, result) ==
    [type |-> "tool_result", tool_use_id |-> 0, content |-> result.content]
    @@ (IF result.is_error THEN [is_error |-> TRUE] ELSE <<>>)

\* _tool_result_block: is_error is a key of the block only for an error.
ToolResultBlock(call_id, result) ==
    [type |-> "tool_result", tool_use_id |-> call_id, content |-> result.content]
    @@ (IF result.is_error THEN [is_error |-> TRUE] ELSE <<>>)

\* A for loop that would answer only the last call of a response.
ToolResultMessagesLastOnly(calls) ==
    <<[role |-> "user",
       blocks |-> <<ToolResultBlock(calls[Len(calls)].id,
                                    ExecuteTool(calls[Len(calls)]).result)>>]>>

\* The messages the for loop of run appends for the calls of a response.
ToolResultMessages(calls) ==
    [i \in 1..Len(calls) |->
        [role |-> "user",
         blocks |-> <<ToolResultBlock(calls[i].id, ExecuteTool(calls[i]).result)>>]]

\* An iteration test that would let one more call through.
IterationLimitPassed(iterations, limit) == iterations > limit

\* `if iterations >= iteration_limit`
IterationLimitReached(iterations, limit) == iterations >= limit

\* `if system:`
SystemGiven(system) == system \notin {None, ""}

\* _prepare_messages keeps the non-system messages; send_messages raises
\* ValueError when none is left.
NoPreparedMessages(history) ==
    \A i \in 1..Len(history) : history[i].role = "system"

RuntimeInit ==
    /\ rt_pc = "idle"
    /\ rt_conversation = <<>>
    /\ rt_system = None
    /\ rt_limit = max_tool_iterations
    /\ rt_history = <<>>
    /\ rt_tool_executions = <<>>
    /\ rt_iterations = 0
    /\ rt_stop_reason = None
    /\ rt_responses = <<>>
    /\ rt_requests = <<>>
    /\ rt_error = None

\* run up to its loop: the history is cloned, an empty one is rejected, the
\* system override is put in front.
run(conversation, system, cap) ==
    /\ rt_pc = "idle"
    /\ rt_conversation' = conversation
    /\ rt_system' = system
    /\ rt_limit' = IF cap.given THEN cap.value ELSE max_tool_iterations
    /\ IF conversation = <<>>
       THEN /\ rt_pc' = "raised"
            /\ rt_error' = "ValueError"
            /\ UNCHANGED rt_history
       ELSE /\ rt_pc' = "calling"
            /\ rt_history' = IF SystemGiven(system)
                             THEN <<TextMessage("system")>> \o conversation
                             ELSE conversation
            /\ UNCHANGED rt_error
    /\ UNCHANGED <<rt_tool_executions, rt_iterations, rt_stop_reason,
                   rt_responses, rt_requests>>

\* One pass of the while loop: the backend call, the assistant message, the
\* two exits, the execution of the requested tools.
run_iteration(response) ==
    /\ rt_pc = "calling"
    /\ IF NoPreparedMessages(rt_history)
       THEN /\ rt_pc' = "raised"
            /\ rt_error' = "ValueError"
            /\ UNCHANGED <<rt_history, rt_tool_executions, rt_iterations,
                           rt_stop_reason, rt_responses, rt_requests>>
       ELSE /\ rt_requests' = Append(rt_requests, rt_history[Len(rt_history)])
            /\ IF response.failed
               THEN /\ rt_pc' = "raised"
                    /\ rt_error' = "AnthropicError"
                    /\ UNCHANGED <<rt_history, rt_tool_executions, rt_iterations,
                                   rt_stop_reason, rt_responses>>
               ELSE LET last_response ==
                            NormaliseResponse(response, CallsRequested(rt_responses) + 1)
                        iterations == rt_iterations + 1
                        history == Append(rt_history, AssistantMessage(last_response))
                        calls == last_response.tool_calls
                    IN /\ rt_responses' = Append(rt_responses, last_response)
                       /\ rt_iterations' = iterations
                       /\ UNCHANGED rt_error
                       /\ IF calls = <<>>
                          THEN /\ rt_stop_reason' = last_response.stop_reason
                               /\ rt_history' = history
                               /\ rt_pc' = "done"
                               /\ UNCHANGED rt_tool_executions
                          ELSE IF IterationLimitReached(iterations, rt_limit)
                          THEN /\ rt_stop_reason' = "tool_iteration_limit"
                               /\ rt_history' = history
                               /\ rt_pc' = "done"
                               /\ UNCHANGED rt_tool_executions
                          ELSE /\ rt_tool_executions' =
                                    rt_tool_executions \o
                                    [i \in 1..Len(calls) |-> ExecuteTool(calls[i])]
                               /\ rt_history' = history \o ToolResultMessages(calls)
                               /\ UNCHANGED <<rt_pc, rt_stop_reason>>
    /\ UNCHANGED <<rt_conversation, rt_system, rt_limit>>

RuntimeNext ==
    \/ (\E conversation \in Conversations, system \in Systems, cap \in IterationCaps :
            run(conversation, system, cap)) /\ UNCHANGED <<sm_vars, tc_vars, r_vars, f_vars, cs_vars, ce_vars, o_vars, j_vars>>
    \/ (\E response \in BackendResponses : run_iteration(response))
          /\ UNCHANGED <<sm_vars, tc_vars, r_vars, f_vars, cs_vars, ce_vars, o_vars, j_vars>>

(***************************************************************************)
(* The salon turn flow: SalonWebSocketHandlers.handle_message              *)
(***************************************************************************)
SalonModes == {"debate", "discussion", "panel", "consensus", "brainstorm"}

\* _get_turn_strategy
get_turn_strategy(mode) ==
    CASE mode = "debate" -> "debate"
      [] mode = "discussion" -> "round_robin"
      [] mode = "panel" -> "moderated"
      [] mode = "consensus" -> "priority"
      [] mode = "brainstorm" -> "free_form"
      [] OTHER -> "round_robin"

\* The ids handle_message is called with; "user" is no participant.
FlowCallerIds == {"p1", "p2", "user"}

NoFlowTurn == [speaker |-> None, finished |-> FALSE, degraded |-> FALSE]

FlowIdle ==
    /\ f_pc = "ready"
    /\ f_speaker = None
    /\ f_turn = NoFlowTurn

\* The session handle_start leaves behind: a started manager and a
\* coordinator over the same participants, its strategy taken from the mode.
FlowInit ==
    /\ sm_state = "active"
    /\ sm_current_turn = 0
    /\ sm_messages = <<>>
    /\ sm_stats = [p \in SeqToSet(sm_participants) |->
                     [turn_count |-> 0, total_characters |-> 0, last_message_at |-> 0]]
    /\ sm_started_at = TRUE
    /\ sm_completed_at = FALSE
    /\ sm_call = [op |-> "start", raised |-> FALSE]
    /\ \E mode \in SalonModes :
          TurnCoordinatorInit(sm_participants, get_turn_strategy(mode), None)
    /\ RouterInit
    /\ FlowIdle

\* The payload LLMInvoker.invoke builds for a participant: a context dict,
\* no mentions, options with temperature and max_tokens.
InvokePayload ==
    [profile_id |-> None,
     options |-> [kind |-> "dict", max_retries |-> NoRetries],
     context |-> "dict",
     mentions |-> "absent"]

\* str(raw_response.get("content", ""))
ContentText(response) ==
    CASE response.content.marker = "[mock-fallback" -> "[mock-fallback]"
      [] response.content.marker = "[mock" -> "[mock]"
      [] OTHER -> "reply"

\* LLMInvoker.invoke on the finished router call: the response, or content
\* "" and meta {"error": str(exc)} for an exception.
InvokeResult ==
    IF r_pc = "raised"
    THEN [content |-> "", meta |-> [error |-> "exception"]]
    ELSE [content |-> ContentText(r_response), meta |-> r_response.meta]

\* TurnCoordinator.get_next_speaker is called by handle_message: the
\* coordinator's next turn is taken and its participant returned.
get_next_speaker ==
    /\ get_next_turn
    /\ f_speaker' = IF tc_call'.raised THEN None
                    ELSE tc_turn_history'[Len(tc_turn_history')].participant_id

\* handle_message up to the router call: the posted message is logged, the
\* next speaker is taken from the coordinator and invoked.
handle_message_begin(pid, content) ==
    /\ f_pc = "ready"
    /\ sm_current_turn < MaxTurn
    /\ Len(sm_messages) + 2 <= MaxMessages
    /\ add_message(pid, content)
    /\ IF ~KnownParticipant(pid)
       THEN UNCHANGED <<tc_vars, r_vars, f_vars>>
       ELSE /\ get_next_speaker
            /\ IF tc_call'.raised
               THEN UNCHANGED <<r_vars, f_pc, f_turn>>
               ELSE /\ send_message("anthropic", "opus4.6", InvokePayload)
                    /\ f_pc' = "invoking"
                    /\ f_turn' = [speaker |-> f_speaker', finished |-> FALSE,
                                  degraded |-> FALSE]

\* _invoke_participant after the router call, and the rest of
\* handle_message: a result whose meta carries an error is logged and
\* dropped, any other is added as the speaker's message; the turn advances.
handle_message_finish ==
    /\ f_pc = "invoking"
    /\ r_pc \in {"returned", "raised"}
    /\ LET result == InvokeResult
           error == "error" \in DOMAIN result.meta
       IN /\ IF error
             THEN UNCHANGED <<sm_messages, sm_stats>>
             ELSE /\ sm_messages' = Append(sm_messages,
                         SalonMessage(f_speaker, result.content, sm_current_turn))
                  /\ sm_stats' = UpdatedStats(sm_stats, f_speaker, result.content,
                                              Len(sm_messages) + 1)
          /\ f_turn' = [speaker |-> f_speaker, finished |-> TRUE,
                        degraded |-> "degraded" \in DOMAIN result.meta
                                     /\ result.meta.degraded]
    /\ sm_current_turn' = sm_current_turn + 1
    /\ sm_call' = [op |-> "advance_turn", raised |-> FALSE]
    /\ r_pc' = "idle"
    /\ r_request' = NoRequest
    /\ r_profile' = NoProfile
    /\ r_max_retries' = DEFAULT_MAX_RETRIES
    /\ r_attempt' = 0
    /\ r_errors' = <<>>
    /\ r_outcomes' = <<>>
    /\ r_response' = NoResponse
    /\ f_pc' = "ready"
    /\ f_speaker' = None
    /\ UNCHANGED <<sm_state, sm_started_at, sm_completed_at, r_enabled, tc_vars>>

FlowNext ==
    \/ (\E pid \in FlowCallerIds, content \in Contents :
            handle_message_begin(pid, content)) /\ UNCHANGED <<rt_vars, cs_vars, ce_vars, o_vars, j_vars>>
    \/ (\E outcome \in {"ok", "ok_with_warnings", "exception", "timeout"},
           latency \in 0..MaxLatencyMs :
            send_message_attempt(outcome, latency))
          /\ UNCHANGED <<sm_vars, tc_vars, rt_vars, f_vars, cs_vars, ce_vars, o_vars, j_vars>>
    \/ handle_message_finish /\ UNCHANGED <<rt_vars, cs_vars, ce_vars, o_vars, j_vars>>

(***************************************************************************)
(* AgentSOrchestratorTool                                                  *)
(***************************************************************************)
\* Personas of persona_tools that are scheduled, and task priorities.
Personas == {"planner", "coder"}
TaskPriorities == {0, 1}
ExecutionModes == {"parallel", "sequential", "priority"}

\* An AgentTask, with the fields the executors read.
AgentTask(persona, priority) == [persona |-> persona, priority |-> priority]

AgentTasks == {AgentTask(p, q) : p \in Personas, q \in TaskPriorities}

\* The tasks of a tool input: at least one (minItems 1).
TaskLists == UNION {[1..n -> AgentTasks] : n \in 1..MaxTasks}

\* timeout_seconds, in ticks of the event loop's clock.
Timeouts == 0..MaxClock

\* How a persona tool's run_impl ends: it returns its result, or it raises.
ToolOutcomes == {"ok", "error"}

\* The (persona, result) tuple of one task; task is the index of the task
\* in run_impl's list, kind tells the tool's own result from the error
\* result of _execute_task and from the timeout result of an executor.
TaskResult(tasks, i, kind) == [persona |-> tasks[i].persona, kind |-> kind, task |-> i]

\* Task i comes before task j in sorted(tasks, key=priority, reverse=True):
\* a stable sort, so equal priorities keep their list order.
SortsBefore(tasks, i, j) ==
    \/ tasks[i].priority > tasks[j].priority
    \/ tasks[i].priority = tasks[j].priority /\ i < j

\* sorted_tasks of _execute_priority, as indices of tasks.
sorted_tasks(tasks) ==
    [k \in 1..Len(tasks) |->
        CHOOSE i \in 1..Len(tasks) :
            Cardinality({j \in 1..Len(tasks) : SortsBefore(tasks, j, i)}) = k - 1]

\* The budget check lets one more tick pass.
BudgetExceededLate == o_clock > o_timeout

\* elapsed >= timeout_seconds in _execute_sequential.
BudgetExceeded == o_clock >= o_timeout

Running == {i \in 1..Len(o_tasks) : o_status[i] = "running"}

OrchestratorIdle ==
    /\ o_pc = "idle"
    /\ o_mode = "parallel"
    /\ o_tasks = <<>>
    /\ o_timeout = 0
    /\ o_sorted = <<>>
    /\ o_clock = 0
    /\ o_status = <<>>
    /\ o_invoked = <<>>
    /\ o_results = <<>>

\* run_impl up to the first await of the executor it dispatches to.
\* _execute_parallel hands every _execute_task coroutine to gather, which
\* starts them in task order; the other two start with no task invoked.
orchestrator_run_impl(tasks, mode, timeout) ==
    /\ o_pc = "idle"
    /\ o_tasks' = tasks
    /\ o_mode' = mode
    /\ o_timeout' = timeout
    /\ o_clock' = 0
    /\ o_results' = <<>>
    /\ IF mode = "parallel"
       THEN /\ o_pc' = "gathering"
            /\ o_sorted' = [k \in 1..Len(tasks) |-> k]
            /\ o_status' = [k \in 1..Len(tasks) |-> "running"]
            /\ o_invoked' = [k \in 1..Len(tasks) |-> k]
       ELSE /\ o_pc' = "sequential"
            /\ o_sorted' = IF mode = "priority"
                           THEN sorted_tasks(tasks)
                           ELSE [k \in 1..Len(tasks) |-> k]
            /\ o_status' = [k \in 1..Len(tasks) |-> "pending"]
            /\ o_invoked' = <<>>

\* One _execute_task coroutine under gather finishes before the timeout:
\* its tool returned, or raised and the error result was built.
execute_task_parallel(i, outcome) ==
    /\ o_pc = "gathering"
    /\ i \in Running
    /\ o_clock < o_timeout
    /\ o_status' = [o_status EXCEPT ![i] = outcome]
    /\ UNCHANGED <<o_pc, o_mode, o_tasks, o_timeout, o_sorted, o_clock,
                   o_invoked, o_results>>

\* Time passes while gather waits.
gather_waits ==
    /\ o_pc = "gathering"
    /\ Running # {}
    /\ o_clock < o_timeout
    /\ o_clock' = o_clock + 1
    /\ UNCHANGED <<o_pc, o_mode, o_tasks, o_timeout, o_sorted, o_status,
                   o_invoked, o_results>>

\* _execute_parallel, wait_for returned: the results in task order.
execute_parallel_return ==
    /\ o_pc = "gathering"
    /\ Running = {}
    /\ o_results' = [k \in 1..Len(o_tasks) |-> TaskResult(o_tasks, k, o_status[k])]
    /\ o_pc' = "done"
    /\ UNCHANGED <<o_mode, o_tasks, o_timeout, o_sorted, o_clock, o_status, o_invoked>>

\* _execute_parallel, wait_for raised asyncio.TimeoutError: gather is
\* cancelled and every task gets the timeout result.
execute_parallel_timeout ==
    /\ o_pc = "gathering"
    /\ Running # {}
    /\ o_clock >= o_timeout
    /\ o_results' = [k \in 1..Len(o_tasks) |-> TaskResult(o_tasks, k, "timeout")]
    /\ o_status' = [k \in 1..Len(o_tasks) |->
                        IF k \in Running THEN "cancelled" ELSE o_status[k]]
    /\ o_pc' = "done"
    /\ UNCHANGED <<o_mode, o_tasks, o_timeout, o_sorted, o_clock, o_invoked>>

\* The head of _execute_sequential's loop: return when every task has a
\* result, skip the remaining tasks when the budget is used up, otherwise
\* invoke the next task.
execute_sequential ==
    /\ o_pc = "sequential"
    /\ IF Len(o_results) = Len(o_sorted)
       THEN /\ o_pc' = "done"
            /\ UNCHANGED <<o_status, o_invoked, o_results>>
       ELSE IF BudgetExceeded
       THEN /\ o_results' = o_results \o
                   [k \in 1..(Len(o_sorted) - Len(o_results)) |->
                        TaskResult(o_tasks, o_sorted[Len(o_results) + k], "timeout")]
            /\ o_pc' = "done"
            /\ UNCHANGED <<o_status, o_invoked>>
       ELSE /\ o_status' = [o_status EXCEPT ![o_sorted[Len(o_results) + 1]] = "running"]
            /\ o_invoked' = Append(o_invoked, o_sorted[Len(o_results) + 1])
            /\ o_pc' = "awaiting"
            /\ UNCHANGED o_results
    /\ UNCHANGED <<o_mode, o_tasks, o_timeout, o_sorted, o_clock>>

\* The awaited _execute_task of _execute_sequential finishes after
\* duration ticks; the clock is not read beyond MaxClock.
execute_task_sequential(outcome, duration) ==
    /\ o_pc = "awaiting"
    /\ LET i == o_sorted[Len(o_results) + 1]
       IN /\ o_status' = [o_status EXCEPT ![i] = outcome]
          /\ o_results' = Append(o_results, TaskResult(o_tasks, i, outcome))
    /\ o_clock' = IF o_clock + duration > MaxClock THEN MaxClock ELSE o_clock + duration
    /\ o_pc' = "sequential"
    /\ UNCHANGED <<o_mode, o_tasks, o_timeout, o_sorted, o_invoked>>

OrchestratorNext ==
    \/ (\E tasks \in TaskLists, mode \in ExecutionModes, timeout \in Timeouts :
            orchestrator_run_impl(tasks, mode, timeout))
          /\ UNCHANGED <<sm_vars, tc_vars, r_vars, rt_vars, f_vars, cs_vars, ce_vars, j_vars>>
    \/ (\E i \in 1..Len(o_tasks), outcome \in ToolOutcomes :
            execute_task_parallel(i, outcome))
          /\ UNCHANGED <<sm_vars, tc_vars, r_vars, rt_vars, f_vars, cs_vars, ce_vars, j_vars>>
    \/ gather_waits
          /\ UNCHANGED <<sm_vars, tc_vars, r_vars, rt_vars, f_vars, cs_vars, ce_vars, j_vars>>
    \/ execute_parallel_return
          /\ UNCHANGED <<sm_vars, tc_vars, r_vars, rt_vars, f_vars, cs_vars, ce_vars, j_vars>>
    \/ execute_parallel_timeout
          /\ UNCHANGED <<sm_vars, tc_vars, r_vars, rt_vars, f_vars, cs_vars, ce_vars, j_vars>>
    \/ execute_sequential
          /\ UNCHANGED <<sm_vars, tc_vars, r_vars, rt_vars, f_vars, cs_vars, ce_vars, j_vars>>
    \/ (\E outcome \in ToolOutcomes, duration \in 0..MaxClock :
            execute_task_sequential(outcome, duration))
          /\ UNCHANGED <<sm_vars, tc_vars, r_vars, rt_vars, f_vars, cs_vars, ce_vars, j_vars>>

(***************************************************************************)
(* AgentJobStore and AgentJobRunner                                        *)
(***************************************************************************)
JobProviders == {"anthropic", "openai"}

\* The message lists of a request: a message is a mapping that may lack
\* its role or its content.
JobMessage(role, content) == [role |-> role, content |-> content]

JobMessageLists ==
    {<<>>,
     <<JobMessage("user", "hello")>>,
     <<JobMessage(None, "hello")>>,
     <<JobMessage("user", "hello"), JobMessage("user", None)>>}

\* An AgentJobRequest, with the fields create_job reads.
AgentJobRequest(provider, messages) == [provider |-> provider, messages |-> messages]

AgentJobRequests == {AgentJobRequest(p, m) : p \in JobProviders, m \in JobMessageLists}

\* _build_messages raises ValueError at the first message without a
\* string role or without a content.
BuildMessagesRaises(request) ==
    \E i \in 1..Len(request.messages) :
        request.messages[i].role = None \/ request.messages[i].content = None

BuildMessagesError(request) ==
    LET i == CHOOSE k \in 1..Len(request.messages) :
                 /\ request.messages[k].role = None \/ request.messages[k].content = None
                 /\ \A h \in 1..(k - 1) :
                        request.messages[h].role # None /\ request.messages[h].content # None
    IN IF request.messages[i].role = None
       THEN "Each message must include a 'role' field."
       ELSE "Each message must include a 'content' field."

\* An optional LLMResult.
NoJobResult == [type |-> "None"]
LLMResult(text) == [type |-> "LLMResult", text |-> text]

\* How the call of the router ends: it returns an LLMResult, or it raises
\* UnknownProviderError or another exception whose str() is the message.
RouterSendOutcomes ==
    {[kind |-> "returned", text |-> t] : t \in {"", "Agent completed."}}
        \cup {[kind |-> "UnknownProviderError", message |-> "Provider 'openai' is not configured"]}
        \cup {[kind |-> "Exception", message |-> m] : m \in {"", "boom"}}

\* _build_artifacts: one TEXT artifact when the result has text.
build_artifacts(result) == IF result.text # "" THEN 1 ELSE 0

\* The AgentJob that create_job builds first.
NewJob(job_id, request) ==
    [id |-> job_id, status |-> "running", provider |-> request.provider,
     input |-> request, result |-> NoJobResult, error |-> None,
     logs |-> 2, progress |-> 0, artifacts |-> 0]

\* An except branch that sets the error and leaves the status.
JobFailedStillRunning(job, message) ==
    [job EXCEPT !.error = message, !.logs = @ + 1]

\* The except branches of create_job.
JobFailed(job, message) ==
    [job EXCEPT !.status = "failed", !.error = message, !.logs = @ + 1]

\* The else branch of create_job.
JobCompleted(job, result) ==
    [job EXCEPT !.status = "completed", !.result = result, !.progress = 1,
                !.logs = @ + 1, !.artifacts = build_artifacts(result)]

NoJobCall == [op |-> "none", raised |-> FALSE]

\* The try block of create_job has not ended.
NoOutcome == [kind |-> "none"]

JobsIdle ==
    /\ j_jobs = << >>
    /\ j_pc = "idle"
    /\ j_job = 0
    /\ j_returned = <<>>
    /\ j_call = NoJobCall
    /\ j_outcome = NoOutcome

\* create_job up to the call of the router: the job is built with a fresh
\* id and put into the store.
create_job(request) ==
    /\ j_pc = "idle"
    /\ Len(j_jobs) < MaxJobs
    /\ j_job' = Len(j_jobs) + 1
    /\ j_jobs' = Append(j_jobs, NewJob(Len(j_jobs) + 1, request))
    /\ j_pc' = "dispatching"
    /\ j_call' = [op |-> "create_job", raised |-> FALSE]
    /\ UNCHANGED <<j_returned, j_outcome>>

\* The rest of create_job: the try block ends, the job is updated, put
\* into the store again and returned.  The job in the store is the object
\* the caller gets.
create_job_return(outcome) ==
    /\ j_pc = "dispatching"
    /\ LET job == j_jobs[j_job]
           how == IF BuildMessagesRaises(job.input) THEN "messages_raised"
                  ELSE IF outcome.kind = "returned" THEN "returned"
                  ELSE "router_raised"
           done == IF how = "messages_raised"
                   THEN JobFailed(job, BuildMessagesError(job.input))
                   ELSE IF how = "returned"
                   THEN JobCompleted(job, LLMResult(outcome.text))
                   ELSE JobFailed(job, outcome.message)
       IN /\ j_jobs' = [j_jobs EXCEPT ![j_job] = done]
          /\ j_returned' = Append(j_returned, [id |-> j_job, how |-> how])
    /\ j_pc' = "idle"
    /\ j_call' = [op |-> "create_job", raised |-> FALSE]
    /\ UNCHANGED <<j_job, j_outcome>>

\* The steps of create_job as a thread takes them, one attribute of the
\* shared job object at a time.  The try block ends and the first statement
\* of the branch taken assigns job.status.
create_job_set_status(outcome) ==
    /\ j_pc = "dispatching"
    /\ LET job == j_jobs[j_job]
           ended == IF BuildMessagesRaises(job.input)
                    THEN [kind |-> "Exception", message |-> BuildMessagesError(job.input)]
                    ELSE outcome
       IN /\ j_outcome' = ended
          /\ j_jobs' = [j_jobs EXCEPT ![j_job].status =
                            IF ended.kind = "returned" THEN "completed" ELSE "failed"]
    /\ j_pc' = "status_set"
    /\ UNCHANGED <<j_job, j_returned, j_call>>

\* job.result = result
create_job_set_result ==
    /\ j_pc = "status_set"
    /\ j_outcome.kind = "returned"
    /\ j_jobs' = [j_jobs EXCEPT ![j_job].result = LLMResult(j_outcome.text)]
    /\ j_pc' = "result_set"
    /\ UNCHANGED <<j_job, j_returned, j_call, j_outcome>>

\* job.progress = 1.0
create_job_set_progress ==
    /\ j_pc = "result_set"
    /\ j_jobs' = [j_jobs EXCEPT ![j_job].progress = 1]
    /\ j_pc' = "details_set"
    /\ UNCHANGED <<j_job, j_returned, j_call, j_outcome>>

\* job.error = str(exc)
create_job_set_error ==
    /\ j_pc = "status_set"
    /\ j_outcome.kind # "returned"
    /\ j_jobs' = [j_jobs EXCEPT ![j_job].error = j_outcome.message]
    /\ j_pc' = "details_set"
    /\ UNCHANGED <<j_job, j_returned, j_call, j_outcome>>

\* job.logs.append(...)
create_job_append_log ==
    /\ j_pc = "details_set"
    /\ j_jobs' = [j_jobs EXCEPT ![j_job].logs = @ + 1]
    /\ j_pc' = IF j_outcome.kind = "returned" THEN "logged" ELSE "finishing"
    /\ UNCHANGED <<j_job, j_returned, j_call, j_outcome>>

\* job.artifacts = self._build_artifacts(result)
create_job_set_artifacts ==
    /\ j_pc = "logged"
    /\ j_jobs' = [j_jobs EXCEPT ![j_job].artifacts = build_artifacts(LLMResult(j_outcome.text))]
    /\ j_pc' = "finishing"
    /\ UNCHANGED <<j_job, j_returned, j_call, j_outcome>>

\* self.store.put(job) puts the same object under its id again, and the job
\* is returned.
create_job_put_return ==
    /\ j_pc = "finishing"
    /\ j_returned' = Append(j_returned,
                            [id |-> j_job,
                             how |-> IF BuildMessagesRaises(j_jobs[j_job].input)
                                     THEN "messages_raised"
                                     ELSE IF j_outcome.kind = "returned" THEN "returned"
                                     ELSE "router_raised"])
    /\ j_pc' = "idle"
    /\ j_call' = [op |-> "create_job", raised |-> FALSE]
    /\ j_outcome' = NoOutcome
    /\ UNCHANGED <<j_jobs, j_job>>

\* get_job: the stored job, KeyError for an unknown id.
get_job(job_id) ==
    /\ j_call' = [op |-> "get_job", raised |-> job_id \notin DOMAIN j_jobs]
    /\ UNCHANGED <<j_jobs, j_pc, j_job, j_returned, j_outcome>>

\* list_jobs: the stored jobs.
list_jobs ==
    /\ j_call' = [op |-> "list_jobs", raised |-> FALSE]
    /\ UNCHANGED <<j_jobs, j_pc, j_job, j_returned, j_outcome>>

JobsNext ==
    \/ (\E request \in AgentJobRequests : create_job(request))
          /\ UNCHANGED <<sm_vars, tc_vars, r_vars, rt_vars, f_vars, cs_vars, ce_vars, o_vars>>
    \/ (\E outcome \in RouterSendOutcomes : create_job_return(outcome))
          /\ UNCHANGED <<sm_vars, tc_vars, r_vars, rt_vars, f_vars, cs_vars, ce_vars, o_vars>>
    \/ (\E job_id \in 1..(MaxJobs + 1) : get_job(job_id))
          /\ UNCHANGED <<sm_vars, tc_vars, r_vars, rt_vars, f_vars, cs_vars, ce_vars, o_vars>>
    \/ list_jobs
          /\ UNCHANGED <<sm_vars, tc_vars, r_vars, rt_vars, f_vars, cs_vars, ce_vars, o_vars>>

\* create_job on one thread, statement by statement, and readers on
\* another.
JobThreadsNext ==
    \/ (\E request \in AgentJobRequests : create_job(request))
          /\ UNCHANGED <<sm_vars, tc_vars, r_vars, rt_vars, f_vars, cs_vars, ce_vars, o_vars>>
    \/ (\E outcome \in RouterSendOutcomes : create_job_set_status(outcome))
          /\ UNCHANGED <<sm_vars, tc_vars, r_vars, rt_vars, f_vars, cs_vars, ce_vars, o_vars>>
    \/ create_job_set_result
          /\ UNCHANGED <<sm_vars, tc_vars, r_vars, rt_vars, f_vars, cs_vars, ce_vars, o_vars>>
    \/ create_job_set_progress
          /\ UNCHANGED <<sm_vars, tc_vars, r_vars, rt_vars, f_vars, cs_vars, ce_vars, o_vars>>
    \/ create_job_set_error
          /\ UNCHANGED <<sm_vars, tc_vars, r_vars, rt_vars, f_vars, cs_vars, ce_vars, o_vars>>
    \/ create_job_append_log
          /\ UNCHANGED <<sm_vars, tc_vars, r_vars, rt_vars, f_vars, cs_vars, ce_vars, o_vars>>
    \/ create_job_set_artifacts
          /\ UNCHANGED <<sm_vars, tc_vars, r_vars, rt_vars, f_vars, cs_vars, ce_vars, o_vars>>
    \/ create_job_put_return
          /\ UNCHANGED <<sm_vars, tc_vars, r_vars, rt_vars, f_vars, cs_vars, ce_vars, o_vars>>
    \/ (\E job_id \in 1..(MaxJobs + 1) : get_job(job_id))
          /\ UNCHANGED <<sm_vars, tc_vars, r_vars, rt_vars, f_vars, cs_vars, ce_vars, o_vars>>
    \/ list_jobs
          /\ UNCHANGED <<sm_vars, tc_vars, r_vars, rt_vars, f_vars, cs_vars, ce_vars, o_vars>>

InitSalon ==
    /\ SalonInit /\ TurnIdle /\ RouterInit /\ r_enabled = ProfileIds /\ RuntimeInit /\ FlowIdle
    /\ SessionIdle /\ ConsensusIdle /\ OrchestratorIdle /\ JobsIdle

InitTurn ==
    /\ SalonInit /\ TurnInit /\ RouterInit /\ r_enabled = ProfileIds /\ RuntimeInit /\ FlowIdle
    /\ SessionIdle /\ ConsensusIdle /\ OrchestratorIdle /\ JobsIdle

InitRouter ==
    /\ SalonInit /\ TurnIdle /\ RouterInit /\ RuntimeInit /\ FlowIdle
    /\ SessionIdle /\ ConsensusIdle /\ OrchestratorIdle /\ JobsIdle

InitRuntime ==
    /\ SalonInit /\ TurnIdle /\ RouterInit /\ r_enabled = ProfileIds /\ RuntimeInit /\ FlowIdle
    /\ SessionIdle /\ ConsensusIdle /\ OrchestratorIdle /\ JobsIdle

InitFlow == FlowInit /\ RuntimeInit /\ SessionIdle /\ ConsensusIdle /\ OrchestratorIdle /\ JobsIdle

InitSession ==
    /\ SalonInit /\ TurnIdle /\ RouterInit /\ r_enabled = ProfileIds /\ RuntimeInit /\ FlowIdle
    /\ SessionInit /\ ConsensusIdle /\ OrchestratorIdle /\ JobsIdle

InitLifecycle ==
    /\ SalonInAnyState /\ TurnIdle /\ RouterInit /\ r_enabled = ProfileIds /\ RuntimeInit /\ FlowIdle
    /\ SessionIdle /\ ConsensusIdle /\ OrchestratorIdle /\ JobsIdle

InitOrchestrator ==
    /\ SalonInit /\ TurnIdle /\ RouterInit /\ r_enabled = ProfileIds /\ RuntimeInit /\ FlowIdle
    /\ SessionIdle /\ ConsensusIdle /\ OrchestratorIdle /\ JobsIdle

InitJobs ==
    /\ SalonInit /\ TurnIdle /\ RouterInit /\ r_enabled = ProfileIds /\ RuntimeInit /\ FlowIdle
    /\ SessionIdle /\ ConsensusIdle /\ OrchestratorIdle /\ JobsIdle

InitJobThreads ==
    /\ SalonInit /\ TurnIdle /\ RouterInit /\ r_enabled = ProfileIds /\ RuntimeInit /\ FlowIdle
    /\ SessionIdle /\ ConsensusIdle /\ OrchestratorIdle /\ JobsIdle

InitClustering ==
    /\ SalonInit /\ TurnIdle /\ RouterInit /\ r_enabled = ProfileIds /\ RuntimeInit /\ FlowIdle
    /\ SessionIdle /\ ClusteringInit /\ OrchestratorIdle /\ JobsIdle

InitConsensus ==
    /\ SalonInit /\ TurnIdle /\ RouterInit /\ r_enabled = ProfileIds /\ RuntimeInit /\ FlowIdle
    /\ SessionIdle /\ ConsensusInit /\ OrchestratorIdle /\ JobsIdle

(***************************************************************************)
(* Properties of SalonManager                                              *)
(***************************************************************************)
\* The last step was a call of SalonManager.op.
SalonCalled(op) == sm_vars' # sm_vars /\ sm_call'.op = op

\* C3: start succeeds only from INITIALIZING, pause only from ACTIVE, resume
\* only from PAUSED, each moving to ACTIVE, PAUSED, ACTIVE; from every other
\* state the call raises.  So pause on a fresh session and a second start
\* raise.
C3_TransitionGuards ==
    [][ /\ SalonCalled("start") =>
              /\ sm_call'.raised <=> sm_state # "initializing"
              /\ ~sm_call'.raised => sm_state' = "active"
        /\ SalonCalled("pause") =>
              /\ sm_call'.raised <=> sm_state # "active"
              /\ ~sm_call'.raised => sm_state' = "paused"
        /\ SalonCalled("resume") =>
              /\ sm_call'.raised <=> sm_state # "paused"
              /\ ~sm_call'.raised => sm_state' = "active" ]_vars

\* A second start has been rejected on a session that was started, paused
\* and resumed.
C3_Witness ==
    /\ sm_call = [op |-> "start", raised |-> TRUE]
    /\ sm_state = "active"
    /\ sm_started_at

\* C4: a start, pause, resume or add_message that raises leaves the state,
\* the current turn, the message log and the per-participant stats as they
\* were.
C4_RejectedCallChangesNothing ==
    [][ (sm_call' # sm_call /\ sm_call'.raised
            /\ sm_call'.op \in {"start", "pause", "resume", "add_message"})
        => UNCHANGED <<sm_state, sm_current_turn, sm_messages, sm_stats>> ]_vars

\* add_message for an unknown participant has been rejected on a session
\* with a non-empty log and an advanced turn.
C4_Witness ==
    /\ sm_call = [op |-> "add_message", raised |-> TRUE]
    /\ sm_messages # <<>>
    /\ sm_current_turn > 0

\* C21: complete() never raises and leaves the session COMPLETED, whatever
\* state it is called in.
C21_CompleteAlwaysCompletes ==
    [][ SalonCalled("complete")
          => /\ ~sm_call'.raised
             /\ sm_state' = "completed"
             /\ sm_completed_at' ]_vars

\* complete() has been called in every state: the state before the call is
\* what the session was created with when no other call came first.
C21_Witness ==
    /\ sm_call = [op |-> "complete", raised |-> FALSE]
    /\ sm_state = "completed"
    /\ sm_current_turn > 0
    /\ ~sm_started_at

\* C22: in each of INITIALIZING, ACTIVE and PAUSED some SalonManager
\* operation leads to ERROR.
C22_ErrorReachable ==
    sm_state \in {"initializing", "active", "paused"}
        => ENABLED (SalonNext /\ sm_state' = "error")

\* The log after a step extends the log before it.
LogExtended ==
    /\ Len(sm_messages') >= Len(sm_messages)
    /\ SubSeq(sm_messages', 1, Len(sm_messages)) = sm_messages

\* turn_number does not decrease along the log.
TurnNumbersAscend ==
    \A i \in 1..Len(sm_messages), j \in 1..Len(sm_messages) :
        i <= j => sm_messages[i].turn_number <= sm_messages[j].turn_number

\* C23: add_message by a roster participant appends exactly one message,
\* stamped with the current turn; over add_message and advance_turn calls
\* the log only grows at its end and turn_number does not decrease along it.
C23_LogAppendOnly ==
    /\ [](TurnNumbersAscend)
    /\ [][ LogExtended ]_vars
    /\ [][ (SalonCalled("add_message") /\ ~sm_call'.raised)
              => /\ Len(sm_messages') = Len(sm_messages) + 1
                 /\ LET added == sm_messages'[Len(sm_messages')]
                    IN /\ added.participant_id \in SeqToSet(sm_participants)
                       /\ added.content \in Contents
                       /\ added.turn_number = sm_current_turn ]_vars

\* The log holds messages of different turns.
C23_Witness ==
    /\ Len(sm_messages) >= 2
    /\ sm_messages[1].turn_number < sm_messages[Len(sm_messages)].turn_number
    /\ sm_messages[Len(sm_messages)].turn_number = sm_current_turn
    /\ sm_call = [op |-> "add_message", raised |-> FALSE]

\* The last n turns of the session: the n highest turn numbers up to the
\* current turn.
LastTurns(n) == {t \in 0..sm_current_turn : t > sm_current_turn - n}

\* The lines of the messages of the given turns, in log order.
LinesOfTurns(turns) ==
    LET kept == SelectSeq([i \in 1..Len(sm_messages) |-> i],
                          LAMBDA i : sm_messages[i].turn_number \in turns)
    IN [k \in 1..Len(kept) |->
            [timestamp |-> kept[k], participant_id |-> sm_messages[kept[k]].participant_id,
             content |-> sm_messages[kept[k]].content]]

\* C34: get_conversation_history(max_turns = N), N >= 1, renders exactly
\* the messages of the last N turns, by turn_number, one line per message
\* in log order; without max_turns it renders every message.
C34_HistoryOfLastTurns ==
    /\ \A n \in 1..(MaxTurn + 1) :
          get_conversation_history(MaxTurnsOf(n)) = LinesOfTurns(LastTurns(n))
    /\ get_conversation_history(NoMaxTurns) = LinesOfTurns(0..sm_current_turn)

\* The indices of the log messages sent by participant p.
MessagesFrom(p) == {i \in 1..Len(sm_messages) : sm_messages[i].participant_id = p}

\* The summed content length of the first n log messages sent by p.
RECURSIVE CharactersFrom(_, _)
CharactersFrom(p, n) ==
    IF n = 0 THEN 0
    ELSE CharactersFrom(p, n - 1)
           + (IF sm_messages[n].participant_id = p THEN Len(sm_messages[n].content) ELSE 0)

\* The sum of the turn_count entries of the first n roster members.
RECURSIVE StatsTurnCounts(_)
StatsTurnCounts(n) ==
    IF n = 0 THEN 0 ELSE StatsTurnCounts(n - 1) + sm_stats[sm_participants[n]].turn_count

\* C35: after every sequence of SalonManager operations the stats agree
\* with the log: their keys are exactly the roster, each participant's
\* turn_count is the number of log messages from it, its total_characters
\* their summed length, and the turn_counts sum to the length of the log.
C35_StatsAgreeWithLog ==
    /\ DOMAIN sm_stats = SeqToSet(sm_participants)
    /\ \A p \in SeqToSet(sm_participants) :
          /\ sm_stats[p].turn_count = Cardinality(MessagesFrom(p))
          /\ sm_stats[p].total_characters = CharactersFrom(p, Len(sm_messages))
    /\ StatsTurnCounts(Len(sm_participants)) = Len(sm_messages)

\* Both participants have messages of different lengths in the log, one
\* add_message was rejected, and the session went on to COMPLETED.
C35_Witness ==
    /\ sm_state = "completed"
    /\ \A p \in SeqToSet(sm_participants) : MessagesFrom(p) # {}
    /\ \E i, j \in 1..Len(sm_messages) :
          Len(sm_messages[i].content) # Len(sm_messages[j].content)
    /\ sm_current_turn > 0

\* C36: COMPLETED is absorbing: from a completed session none of start,
\* pause, resume, complete, add_message and advance_turn leads to another
\* state.
C36_CompletedIsAbsorbing ==
    [][ sm_state = "completed" => sm_state' = "completed" ]_vars

\* resume has been called on a completed session that holds messages and
\* has advanced its turn.
C36_Witness ==
    /\ sm_state = "completed"
    /\ sm_completed_at
    /\ sm_call = [op |-> "resume", raised |-> TRUE]
    /\ sm_messages # <<>>
    /\ sm_current_turn > 0

(***************************************************************************)
(* Properties of TurnCoordinator                                           *)
(***************************************************************************)
\* Every recorded turn came from get_next_turn under round_robin.
OnlyRoundRobinTurns ==
    /\ tc_strategy = "round_robin"
    /\ \A i \in 1..Len(tc_turn_history) : tc_turn_history[i].strategy = "round_robin"

\* C10: under round_robin with turns taken only through get_next_turn, the
\* i-th turn (from 0) goes to participants[i mod n]; after k * n turns every
\* participant has had k turns and the fairness variance is 0.
C10_RoundRobinFair ==
    OnlyRoundRobinTurns =>
        LET n == Len(tc_participants)
            turns == Len(tc_turn_history)
        IN /\ \A i \in 0..(turns - 1) :
                 tc_turn_history[i + 1].participant_id = tc_participants[(i % n) + 1]
           /\ turns % n = 0 =>
                 /\ \A p \in SeqToSet(tc_participants) : tc_counts[p] = turns \div n
                 /\ FairnessVarianceScaled = 0

\* Two full rounds of a two-participant round robin.
C10_Witness ==
    /\ OnlyRoundRobinTurns
    /\ Len(tc_participants) = 2
    /\ Len(tc_turn_history) = 4

\* The last step was a call of TurnCoordinator.op.
TurnCalled(op) == tc_vars' # tc_vars /\ tc_call'.op = op

\* Every member of a debate side is a roster participant.
SidesInRoster ==
    SeqToSet(tc_side_a) \cup SeqToSet(tc_side_b) \subseteq SeqToSet(tc_participants)

\* C11: for every strategy and configuration with a non-empty roster, also a
\* moderated coordinator whose moderator is no roster member and a debate
\* coordinator with sides of roster members, get_next_turn returns a Turn
\* for a roster participant and records it: the history grows by one entry,
\* that participant's count and the total count grow by one.
C11_GetNextTurnRecords ==
    [][ (TurnCalled("get_next_turn") /\ SidesInRoster) =>
          /\ ~tc_call'.raised
          /\ Len(tc_turn_history') = Len(tc_turn_history) + 1
          /\ LET pid == tc_turn_history'[Len(tc_turn_history')].participant_id
             IN /\ pid \in SeqToSet(tc_participants)
                /\ tc_counts' = [tc_counts EXCEPT ![pid] = @ + 1]
          /\ tc_turn_count' = tc_turn_count + 1 ]_vars

\* C12: set_priority and setup_debate reject every participant id outside
\* the roster, and a rejected call leaves the priority scores and the debate
\* sides as they were; so the sides only ever hold roster participants.
C12_ConfigValidatesMembership ==
    /\ [](SidesInRoster /\ DOMAIN tc_priority \subseteq SeqToSet(tc_participants))
    /\ [][ (tc_call' # tc_call /\ tc_call'.raised
              /\ tc_call'.op \in {"set_priority", "setup_debate"})
           => UNCHANGED <<tc_priority, tc_side_a, tc_side_b>> ]_vars

\* The turn counts after the first n turns of the history.
CountsAfter(n) ==
    [p \in SeqToSet(tc_participants) |->
        Cardinality({j \in 1..n : tc_turn_history[j].participant_id = p})]

\* The pick of the debate rule under the given counts.
DebatePickUnder(counts) ==
    LET side == IF SumCounts(tc_side_a, counts) <= SumCounts(tc_side_b, counts)
                THEN tc_side_a ELSE tc_side_b
    IN MinByCount(side, counts)

\* A debate of a 2-member side against a 1-member side, the sides disjoint
\* and of roster members.
TwoAgainstOne ==
    /\ tc_strategy = "debate"
    /\ {Len(tc_side_a), Len(tc_side_b)} = {1, 2}
    /\ SidesInRoster
    /\ SeqToSet(tc_side_a) \cap SeqToSet(tc_side_b) = {}

\* Every turn so far was taken through get_next_turn with the sides in
\* place: turn after turn the history is what the debate rule picks.
DebateTurnsOnly ==
    \A i \in 1..Len(tc_turn_history) :
        /\ tc_turn_history[i].strategy = "debate"
        /\ tc_turn_history[i].participant_id = DebatePickUnder(CountsAfter(i - 1))

\* The single member has at least the average turn count of the pair.
SingleKeepsPace ==
    LET single == IF Len(tc_side_a) = 1 THEN tc_side_a ELSE tc_side_b
        pair == IF Len(tc_side_a) = 1 THEN tc_side_b ELSE tc_side_a
    IN 2 * SumCounts(single, tc_counts) >= SumCounts(pair, tc_counts)

DeterministicStrategies == {"round_robin", "debate", "moderated", "free_form"}

\* get_next_turn can pick: the debate sides, if set, are roster members.
PickDefined == tc_strategy = "debate" /\ DebateConfigured => ~DebateKeyError

\* C14 as stated: for each of the six strategies the next turn assignment
\* is a function of the coordinator's construction and the calls made so
\* far, so two coordinators driven alike assign the same turns.
C14_AsStated ==
    PickDefined => Cardinality(NextTurnChoices) = 1

\* C14: under round_robin, debate, moderated and free_form the next turn
\* assignment is a function of the coordinator's construction and the calls
\* made so far, so two coordinators driven alike assign the same turns;
\* under priority and random the assignment follows the draws of the random
\* module and two such coordinators can differ.
C14_Reproducible ==
    PickDefined =>
        /\ tc_strategy \in DeterministicStrategies => Cardinality(NextTurnChoices) = 1
        /\ (tc_strategy = "random" /\ Len(tc_participants) > 1)
              => Cardinality(NextTurnChoices) > 1

\* A free_form coordinator of three participants after uneven turns.
C14_Witness ==
    /\ tc_strategy = "free_form"
    /\ Len(tc_participants) = 3
    /\ Len(tc_turn_history) = 3
    /\ \E p \in SeqToSet(tc_participants) : tc_counts[p] = 2

\* Both debate sides are declared, of roster members and disjoint.
SidesDeclared ==
    /\ tc_strategy = "debate"
    /\ DebateConfigured
    /\ SidesInRoster
    /\ SeqToSet(tc_side_a) \cap SeqToSet(tc_side_b) = {}

\* The totals of the two sides are at most one apart.
SidesBalanced ==
    LET side_a_turns == SumCounts(tc_side_a, tc_counts)
        side_b_turns == SumCounts(tc_side_b, tc_counts)
    IN side_a_turns - side_b_turns \in {-1, 0, 1}

\* C29: in a debate with both sides declared, get_next_turn gives the turn
\* to the side with the smaller total of turns, side A when the totals are
\* equal, and within it to the member with the fewest turns, the earliest
\* of the side's list among those; so with disjoint sides and every turn
\* taken through get_next_turn the two totals stay at most one apart.
C29_DebatePicksBehindSide ==
    /\ [][ (TurnCalled("get_next_turn") /\ SidesDeclared) =>
              LET pid == tc_turn_history'[Len(tc_turn_history')].participant_id
                  side == IF SumCounts(tc_side_a, tc_counts) <= SumCounts(tc_side_b, tc_counts)
                          THEN tc_side_a ELSE tc_side_b
              IN /\ ~tc_call'.raised
                 /\ \E i \in 1..Len(side) :
                       /\ side[i] = pid
                       /\ \A j \in 1..Len(side) : tc_counts[pid] <= tc_counts[side[j]]
                       /\ \A j \in 1..(i - 1) : tc_counts[side[j]] > tc_counts[pid]
                 /\ SidesBalanced => SidesBalanced' ]_vars
    /\ []((SidesDeclared /\ DebateTurnsOnly) => SidesBalanced)

\* Four debate turns with the single member as side A: C, A, C, B.
C29_Witness ==
    /\ SidesDeclared
    /\ DebateTurnsOnly
    /\ tc_side_a = <<"C">> /\ tc_side_b = <<"A", "B">>
    /\ Len(tc_turn_history) = 4
    /\ tc_turn_history[4].participant_id = "B"
    /\ tc_call = [op |-> "get_next_turn", raised |-> FALSE]

\* Every recorded turn came from get_next_turn under free_form.
OnlyFreeFormTurns ==
    /\ tc_strategy = "free_form"
    /\ \A i \in 1..Len(tc_turn_history) : tc_turn_history[i].strategy = "free_form"

\* C30: under free_form get_next_turn gives the turn to a participant
\* whose turn count is the least of the roster, the earliest in roster
\* order among those; so with every turn taken through get_next_turn the
\* largest and the smallest turn count are at most one apart.
C30_FreeFormPicksLeast ==
    /\ [][ (TurnCalled("get_next_turn") /\ tc_strategy = "free_form") =>
              LET pid == tc_turn_history'[Len(tc_turn_history')].participant_id
              IN /\ ~tc_call'.raised
                 /\ \E i \in 1..Len(tc_participants) :
                       /\ tc_participants[i] = pid
                       /\ \A j \in 1..Len(tc_participants) :
                             tc_counts[pid] <= tc_counts[tc_participants[j]]
                       /\ \A j \in 1..(i - 1) :
                             tc_counts[tc_participants[j]] > tc_counts[pid] ]_vars
    /\ [](OnlyFreeFormTurns =>
            \A p, q \in SeqToSet(tc_participants) : tc_counts[p] - tc_counts[q] <= 1)

\* Four free_form turns over three participants: A, B, C, A.
C30_Witness ==
    /\ OnlyFreeFormTurns
    /\ tc_participants = <<"A", "B", "C">>
    /\ Len(tc_turn_history) = 4
    /\ tc_counts["A"] = 2 /\ tc_counts["B"] = 1 /\ tc_counts["C"] = 1
    /\ tc_call = [op |-> "get_next_turn", raised |-> FALSE]

\* C37: after every sequence of get_next_turn and assign_turn calls the
\* total turn count equals the length of the turn history and the sum of
\* the per-participant counts, and the i-th recorded turn has turn_number i,
\* counting from 0; a rejected assign_turn changes none of these.
C37_TurnCountsAgree ==
    /\ []( /\ tc_turn_count = Len(tc_turn_history)
           /\ tc_turn_count = SumCounts(tc_participants, tc_counts)
           /\ \A i \in 1..Len(tc_turn_history) : tc_turn_history[i].turn_number = i - 1 )
    /\ [][ (TurnCalled("assign_turn") /\ tc_call'.raised)
           => UNCHANGED <<tc_turn_count, tc_turn_history, tc_counts>> ]_vars

(***************************************************************************)
(* Properties of ProviderRouter.send_message                               *)
(***************************************************************************)
\* A response has content, artifacts and meta.
WellFormedResponse(response) ==
    /\ DOMAIN response = {"content", "artifacts", "meta"}
    /\ response.content # NoContent

\* C1: for every provider, model, payload and backend behaviour,
\* send_message returns a response with content, artifacts and meta; no
\* exception reaches the caller.
C1_AlwaysReturnsResponse ==
    /\ r_pc # "raised"
    /\ r_pc = "returned" => WellFormedResponse(r_response)

\* Every backend attempt of the finished call threw.
AllAttemptsThrew ==
    /\ r_pc \in {"returned", "raised"}
    /\ r_profile # NoProfile
    /\ r_outcomes # <<>>
    /\ \A i \in 1..Len(r_outcomes) : r_outcomes[i] \in {"exception", "timeout"}

\* C2: when every backend attempt throws, send_message returns the
\* mock-fallback response: meta.degraded is true, meta.retries is the
\* effective max_retries, meta.attempt is max_retries + 1, meta.warnings has
\* one entry per failed attempt in order, the content carries the fallback
\* marker.
C2_DegradedFallback ==
    AllAttemptsThrew =>
        LET max_retries == EffectiveMaxRetries(r_request.payload.options)
            meta == r_response.meta
        IN /\ r_pc = "returned"
           /\ {"degraded", "retries", "attempt", "warnings"} \subseteq DOMAIN meta
           /\ meta.degraded = TRUE
           /\ meta.retries = max_retries
           /\ meta.attempt = max_retries + 1
           /\ meta.warnings = [i \in 1..(max_retries + 1) |-> ErrorString(r_outcomes[i])]
           /\ r_response.content.marker = "[mock-fallback"

\* meta.degraded of the returned response is true.
FlaggedDegraded ==
    "degraded" \in DOMAIN r_response.meta /\ r_response.meta.degraded

\* The returned response is the mock fallback built after the last attempt
\* failed.
FallbackAfterFailures ==
    /\ AllAttemptsThrew
    /\ r_response.content.marker = "[mock-fallback"

\* C17: meta.degraded of a returned response is true exactly when the
\* response is the mock fallback emitted after all attempts failed; the
\* response of an attempt that succeeded is not flagged degraded, however
\* many earlier attempts failed.
C17_DegradedOnlyOnFallback ==
    r_pc = "returned" => (FlaggedDegraded <=> FallbackAfterFailures)

\* The attempts of the call that failed, in order.
Failed(outcome) == outcome \in {"exception", "timeout"}

FailedAttempts == SelectSeq(r_outcomes, Failed)

\* The call got past profile resolution.
ProfileResolved == r_pc # "idle" /\ r_profile # NoProfile

\* C27: the effective max_retries is 1 when options.max_retries is absent
\* or not an integer, otherwise the value clamped into 0..3; the backend is
\* invoked at most max_retries + 1 times; only the last attempt of a call
\* can have succeeded, and the call returns with it; and the errors hold
\* one string per failed attempt, which a response after failures carries
\* as its warnings.
C27_RetryPolicy ==
    ProfileResolved =>
        LET options == r_request.payload.options
            given == options.max_retries
        IN /\ IF options.kind = "dict" /\ given.type = "int"
              THEN /\ r_max_retries \in 0..3
                   /\ given.value \in 0..3 => r_max_retries = given.value
                   /\ given.value < 0 => r_max_retries = 0
                   /\ given.value > 3 => r_max_retries = 3
              ELSE r_max_retries = 1
           /\ Len(r_outcomes) <= r_max_retries + 1
           /\ \A i \in 1..(Len(r_outcomes) - 1) : Failed(r_outcomes[i])
           /\ (r_outcomes # <<>> /\ ~Failed(r_outcomes[Len(r_outcomes)]))
                 => r_pc = "returned"
           /\ r_pc = "attempting" => Len(r_outcomes) = r_attempt
           /\ Len(r_errors) = Len(FailedAttempts)
           /\ \A i \in 1..Len(r_errors) : r_errors[i] = ErrorString(FailedAttempts[i])
           /\ (r_pc = "returned" /\ r_errors # <<>>)
                 => r_response.meta.warnings = r_errors

\* A call with max_retries 5 that succeeded on its fourth attempt.
C27_Witness ==
    /\ r_pc = "returned"
    /\ r_request.payload.options.max_retries = [type |-> "int", value |-> 5]
    /\ Len(r_outcomes) = 4
    /\ r_outcomes[4] = "ok"
    /\ Len(r_errors) = 3
    /\ r_response.meta.warnings = r_errors

\* The provider of the call has an enabled profile.
ProviderHasEnabled ==
    \E i \in 1..Len(Profiles) :
        Profiles[i].id \in r_enabled /\ Profiles[i].provider = r_request.provider

\* C28: send_message resolves the profile named by an explicit profile_id,
\* else the provider's default profile, else an enabled profile of the
\* provider, and never a disabled profile; it resolves no profile only when
\* the provider has no enabled profile, and then returns the mock response
\* with an error message and invokes no backend.
C28_ProfileResolution ==
    r_pc # "idle" =>
        LET profile_id == r_request.payload.profile_id
            default_id == DefaultId(r_request.provider)
        IN /\ r_profile # NoProfile =>
                 /\ r_profile.id \in r_enabled
                 /\ profile_id # None => r_profile.id = profile_id
                 /\ (profile_id = None /\ default_id \in r_enabled)
                       => r_profile.id = default_id
                 /\ (profile_id = None /\ default_id \notin r_enabled)
                       => r_profile.provider = r_request.provider
           /\ r_profile = NoProfile =>
                 /\ ~ProviderHasEnabled
                 /\ r_pc = "returned"
                 /\ r_outcomes = <<>>
                 /\ r_response.content.marker = "[mock-fallback"
                 /\ r_response.content.error # None

(***************************************************************************)
(* Properties of the CLI session-affinity map                              *)
(***************************************************************************)
\* Thread t holds the lock inside _set_cli_session.
InCritical(t) == cs_thread[t].pc \in {"locked", "updated", "saved"}

\* C15: once a successful call under a key has finished in which the CLI
\* reported a session id, a call that starts under the same key resumes
\* with the id reported in the last such call.
C15_SessionAffinity ==
    [][ \A t \in Threads :
          (cs_thread[t].pc = "idle" /\ cs_thread'[t].pc = "running")
            => LET key == cs_thread'[t].key
               IN cs_reported[key] # None
                    => cs_thread'[t].prior = cs_reported[key] ]_vars

AttemptFails(t) ==
    /\ cs_thread[t].pc \in {"idle", "running"}
    /\ cs_thread'[t].pc = "idle"
    /\ cs_thread'[t].result = "raised"
    /\ cs_thread'[t] # cs_thread[t] \/ cs_thread[t].pc = "running"

\* No other thread than t has called the router.
OnlyCaller(t) == \A u \in Threads \ {t} : cs_thread[u] = ThreadIdle

Analysed == ce_call.op = "analyze_messages" /\ ~ce_call.raised

\* The messages of participant pid.
MessagesOf(pid) == SelectSeq(ce_messages, LAMBDA m : m.participant_id = pid)

\* The one sentence participant pid contributes, when it is one.
OnlySentence(pid) == MessagesOf(pid)[1].content.sentences[1]

\* Each participant of the roster contributes one sentence of 25 or more
\* characters that is not a question.
OneSentenceEach ==
    /\ Len(ce_messages) = Len(ce_participants)
    /\ \A i \in 1..Len(ce_participants) :
          LET mine == MessagesOf(ce_participants[i])
          IN /\ Len(mine) = 1
             /\ mine[1].content.kind = "str"
             /\ Len(mine[1].content.sentences) = 1
             /\ mine[1].content.sentences[1].mark # "?"
             /\ CharLen(mine[1].content.sentences[1].words) >= 25

\* 30% or more of key_terms occur among the words of the other statement.
OverlapAtLeast(key_terms, other) ==
    10 * Cardinality(key_terms \cap WordsOf(other))
        >= 3 * (IF key_terms = {} THEN 1 ELSE Cardinality(key_terms))

\* 30% or more of the key terms of each sentence occur in each other one.
ShareThirtyPercent ==
    \A i \in 1..Len(ce_participants), j \in 1..Len(ce_participants) :
        LET mine == OnlySentence(ce_participants[i]).words
            other == OnlySentence(ce_participants[j]).words
        IN KeyTerms(mine) # {} /\ OverlapAtLeast(KeyTerms(mine), other)

\* C18: with a roster of three and threshold 0.6, when each participant
\* contributes one non-question sentence of 25 or more characters and the
\* sentences share 30% or more of their key terms, the analysis yields a
\* level of partial or higher and exactly one consensus point, supported by
\* all three.
C18_ThreeAgree ==
    (/\ Analysed
     /\ Len(ce_participants) = 3
     /\ ce_threshold = 60
     /\ OneSentenceEach
     /\ ShareThirtyPercent)
        => /\ ce_result.level \in {"partial", "strong", "unanimous"}
           /\ Len(ce_result.consensus_points) = 1
           /\ Cardinality(ce_result.consensus_points[1].supporting_participants) = 3

\* The statement and the supporters of each point.
PointsOf(result) ==
    [i \in 1..Len(result.consensus_points) |->
        <<result.consensus_points[i].statement,
          result.consensus_points[i].supporting_participants>>]

\* Two results agree in level, points, disagreements, synthesis, confidence.
SameAnalysis(first, second) ==
    /\ first.level = second.level
    /\ PointsOf(first) = PointsOf(second)
    /\ first.areas_of_disagreement = second.areas_of_disagreement
    /\ first.synthesis = second.synthesis
    /\ first.confidence = second.confidence

\* C19: analyze_messages leaves the tracked history and the message list as
\* they are, and a later analysis of the same list on the same engine
\* agrees with the earlier one in level, points (statements and supporter
\* sets), disagreements, synthesis and confidence.
C19_AnalysisIsPure ==
    [][ (ce_now' # ce_now)
          => /\ ce_consensus_points' = ce_consensus_points
             /\ ce_messages' = ce_messages
             /\ (ce_result # NoResult /\ ~ce_call'.raised)
                  => SameAnalysis(ce_result, ce_result') ]_vars

\* A second analysis has returned points, after one of the first analysis
\* was tracked.
C19_Witness ==
    /\ Analysed
    /\ ce_now = 2
    /\ ce_consensus_points # <<>>
    /\ ce_result.consensus_points # <<>>
    /\ ce_result.consensus_points[1].detected_at = 2
    /\ ce_consensus_points[1].detected_at = 1

\* C20: for every roster and threshold, the analysis of an empty list
\* raises nothing and returns level none, no points, no disagreements and
\* no synthesis.
C20_EmptyListIsNone ==
    (ce_call.op = "analyze_messages" /\ ce_messages = <<>>)
        => /\ ~ce_call.raised
           /\ ce_result.level = "none"
           /\ ce_result.consensus_points = <<>>
           /\ ce_result.areas_of_disagreement = <<>>
           /\ ce_result.synthesis = NoSynthesis

\* An empty list was analysed by an engine without participants.
C20_Witness ==
    /\ Analysed
    /\ ce_messages = <<>>
    /\ ce_participants = <<>>
    /\ ce_result = EmptyResult

\* round(x / 100) as Python rounds: to the nearest integer, a half to the
\* even one.
RoundHundredths(x) ==
    LET q == x \div 100
        r == x % 100
    IN IF r > 50 \/ (r = 50 /\ q % 2 = 1) THEN q + 1 ELSE q

\* The clusters of the analysed list.
AnalysedGroups == StatementGroups(AllStatements(RosterKeys(ce_participants), ce_messages))

\* C31: a cluster becomes a ConsensusPoint exactly when its supporters are
\* at least max(2, round(participant_count * consensus_threshold)), and the
\* point's confidence is supporters / participant_count.
C31_SupportThreshold ==
    (Analysed /\ ce_messages # <<>>) =>
        LET rounded == RoundHundredths(Len(ce_participants) * ce_threshold)
            needed == IF rounded > 2 THEN rounded ELSE 2
            points == ce_result.consensus_points
        IN /\ \A i \in 1..Len(AnalysedGroups) :
                 (\E k \in 1..Len(points) : points[k].statement = AnalysedGroups[i].key)
                     <=> Cardinality(AnalysedGroups[i].supporters) >= needed
           /\ \A k \in 1..Len(points) :
                 points[k].confidence =
                     <<Cardinality(points[k].supporting_participants), Len(ce_participants)>>

\* The sentences of the messages of participant pid.
SentencesOf(pid) ==
    UNION {{m.content.sentences[i] : i \in 1..Len(m.content.sentences)} :
              m \in {ce_messages[k] : k \in {j \in 1..Len(ce_messages) :
                                                  ce_messages[j].participant_id = pid}}}

\* The statements extracted for participant pid.
StatementsOf(pid) ==
    LET own == PositionsOf(pid, ce_messages) IN {own[i] : i \in 1..Len(own)}

\* C32: the statements of a participant are exactly the sentences of the
\* participant's messages that are longer than 20 characters and did not
\* end with a question mark; no question becomes a statement.
C32_QuestionsAreDropped ==
    (Analysed /\ ce_messages # <<>>) =>
        \A pid \in SeqToSet(ce_participants) :
            StatementsOf(pid)
                = {s.words : s \in {t \in SentencesOf(pid) :
                                        CharLen(t.words) > 20 /\ t.mark # "?"}}

\* The statements of the analysed list in processing order, and the
\* clusters after the first n of them.
ProcessingOrder == AllStatements(RosterKeys(ce_participants), ce_messages)

GroupsAfter(n) == StatementGroups(SubSeq(ProcessingOrder, 1, n))

\* Statement and cluster key share more than 0.3 of the statement's key terms.
SharesKeyTerms(statement, key) ==
    LET terms == {statement[i] : i \in 1..Len(statement)} \ StopWords
        shared == terms \cap {key[i] : i \in 1..Len(key)}
    IN 10 * Cardinality(shared) > 3 * (IF terms = {} THEN 1 ELSE Cardinality(terms))

\* C33: each statement, in processing order, joins the earliest cluster
\* whose key shares more than 0.3 of the statement's key terms, and starts
\* a new cluster under its own text otherwise; the other clusters stay as
\* they are, so a cluster's supporters are the participants of the
\* statements assigned to it and only grow.
C33_GreedyFirstMatch ==
    (Analysed /\ ce_messages # <<>>) =>
        \A n \in 1..Len(ProcessingOrder) :
            LET before == GroupsAfter(n - 1)
                after == GroupsAfter(n)
                pid == ProcessingOrder[n][1]
                statement == ProcessingOrder[n][2]
                matching == {i \in 1..Len(before) : SharesKeyTerms(statement, before[i].key)}
            IN IF matching # {}
               THEN LET g == CHOOSE i \in matching : \A j \in matching : i <= j
                    IN /\ Len(after) = Len(before)
                       /\ after[g].supporters = before[g].supporters \cup {pid}
                       /\ \A i \in 1..Len(before) :
                             /\ after[i].key = before[i].key
                             /\ i # g => after[i].supporters = before[i].supporters
               ELSE /\ Len(after) = Len(before) + 1
                    /\ after[Len(after)] = [key |-> statement, supporters |-> {pid}]
                    /\ \A i \in 1..Len(before) : after[i] = before[i]

(***************************************************************************)
(* Properties of AnthropicAgentRuntime.run                                 *)
(***************************************************************************)
Max(a, b) == IF a >= b THEN a ELSE b

RuntimeFinished == rt_pc \in {"done", "raised"}

LastResponse == rt_responses[Len(rt_responses)]

\* C6: run terminates whatever the backend answers; it makes at most
\* max(1, iteration cap) backend calls; it ends with stop_reason
\* "tool_iteration_limit" exactly when the response received at the cap
\* still has tool calls, and otherwise at the first response without tool
\* calls, with the stop_reason of that response.
C6_BoundedLoop ==
    /\ [](Len(rt_requests) <= Max(1, rt_limit))
    /\ [](rt_pc = "done" =>
            /\ rt_stop_reason = "tool_iteration_limit" <=>
                  /\ Len(rt_responses) = Max(1, rt_limit)
                  /\ LastResponse.tool_calls # <<>>
            /\ rt_stop_reason # "tool_iteration_limit" =>
                  /\ LastResponse.tool_calls = <<>>
                  /\ \A i \in 1..(Len(rt_responses) - 1) :
                        rt_responses[i].tool_calls # <<>>
                  /\ rt_stop_reason = LastResponse.stop_reason)
    /\ (rt_pc = "calling" ~> RuntimeFinished)

\* A backend that asked for tools at every call was cut off at a cap of 3.
C6_Witness ==
    /\ rt_pc = "done"
    /\ rt_limit = 3
    /\ Len(rt_requests) = 3
    /\ rt_stop_reason = "tool_iteration_limit"

\* The backend gave k tool-use responses, k below the cap, and then a
\* text-only one.
ToolUseThenText ==
    /\ rt_pc = "done"
    /\ LastResponse.tool_calls = <<>>
    /\ Len(rt_responses) - 1 < rt_limit

\* The parts of C7 on iterations, records and requests.
ToolLoopTrace ==
    LET k == Len(rt_responses) - 1
        requested == CallsRequested(rt_responses)
    IN /\ rt_iterations = k + 1
       /\ Len(rt_requests) = k + 1
       /\ Len(rt_tool_executions) = requested
       /\ \A i \in 1..requested : rt_tool_executions[i].call.id = i
       /\ \A j \in 1..k :
             LET calls == rt_responses[j].tool_calls
                 last == rt_requests[j + 1]
             IN /\ last.role = "user"
                /\ Len(last.blocks) = 1
                /\ last.blocks[1].type = "tool_result"
                /\ last.blocks[1].tool_use_id = calls[Len(calls)].id

\* One tool-use response with one call, on a one-message conversation.
OneCallOneMessage ==
    /\ Len(rt_responses) = 2
    /\ CallsRequested(rt_responses) = 1
    /\ Len(rt_conversation) = 1

\* C7 as stated: after k tool-use responses (k below the cap) and a
\* text-only response, run has made k + 1 iterations, holds one
\* ToolExecutionRecord per requested call, every request after a tool-use
\* response ends with the tool_result block of the call just executed, and
\* for k = 1 with one call and a one-message conversation the history has 4
\* messages.
C7_AsStated ==
    ToolUseThenText =>
        /\ ToolLoopTrace
        /\ OneCallOneMessage => Len(rt_history) = 4

\* C7: after k tool-use responses (k below the cap) and a text-only
\* response, run has made k + 1 iterations, holds one ToolExecutionRecord
\* per requested call, every request after a tool-use response ends with the
\* tool_result block of the call just executed, and for k = 1 with one call
\* and a one-message conversation the history has 4 messages without a
\* system override and 5 with one.
C7_ToolLoop ==
    ToolUseThenText =>
        /\ ToolLoopTrace
        /\ OneCallOneMessage =>
              Len(rt_history) = IF SystemGiven(rt_system) THEN 5 ELSE 4

\* The run of the scripted test, with a system override.
C7_Witness ==
    /\ ToolUseThenText
    /\ OneCallOneMessage
    /\ SystemGiven(rt_system)
    /\ Len(rt_tool_executions) = 1
    /\ Len(rt_history) = 5

\* The call has no registered handler, or its handler raises.
ToolFails(call) == call.name \notin RegisteredTools \/ HandlerRaises(call.name)

\* The history holds the error-tagged tool_result block of the call.
ErrorBlockInHistory(call) ==
    \E j \in 1..Len(rt_history) :
        /\ rt_history[j].role = "user"
        /\ Len(rt_history[j].blocks) = 1
        /\ LET block == rt_history[j].blocks[1]
           IN /\ block.type = "tool_result"
              /\ block.tool_use_id = call.id
              /\ "is_error" \in DOMAIN block
              /\ block.is_error = TRUE

\* C8: a tool call without a registered handler and a tool call whose
\* handler raises each give a result with is_error = true that is recorded
\* and stands in the history as an error-tagged tool_result block; run does
\* not raise over it and goes on to the next backend call.
C8_ToolErrorsContinue ==
    /\ [](\A j \in 1..Len(rt_responses) :
            (j < Len(rt_responses) \/ rt_pc = "calling") =>
                \A c \in 1..Len(rt_responses[j].tool_calls) :
                    LET call == rt_responses[j].tool_calls[c]
                    IN ToolFails(call) =>
                        /\ \E i \in 1..Len(rt_tool_executions) :
                              /\ rt_tool_executions[i].call = call
                              /\ rt_tool_executions[i].result.is_error
                        /\ ErrorBlockInHistory(call))
    /\ [][Len(rt_tool_executions') > Len(rt_tool_executions) => rt_pc' = "calling"]_vars
    /\ [](rt_pc = "raised" => rt_error \in {"ValueError", "AnthropicError"})

\* A missing handler and a raising handler were both recorded and the run
\* still came to its end.
C8_Witness ==
    /\ rt_pc = "done"
    /\ \E i \in 1..Len(rt_tool_executions) :
          rt_tool_executions[i].call.name \notin RegisteredTools
    /\ \E i \in 1..Len(rt_tool_executions) :
          HandlerRaises(rt_tool_executions[i].call.name)
    /\ Len(rt_requests) = 3

\* C9: for every non-empty conversation run returns a RuntimeResult, also
\* when a backend call fails; no exception leaves run.
C9_AlwaysReturnsResult ==
    (rt_pc = "raised") => (rt_conversation = <<>>)

\* The tool_use blocks of message j of the history, in order.
ToolUses(j) == SelectSeq(rt_history[j].blocks, LAMBDA b : b.type = "tool_use")

\* Message j is an assistant message that requests tool calls.
RequestsTools(j) == rt_history[j].role = "assistant" /\ ToolUses(j) # <<>>

\* The calls of assistant message j are answered: the messages after it
\* are one tool_result message per call, in call order, each with the id of
\* its call, and what follows them is no further tool_result.
Answered(j) ==
    LET uses == ToolUses(j)
    IN /\ j + Len(uses) <= Len(rt_history)
       /\ \A k \in 1..Len(uses) :
             LET m == rt_history[j + k]
             IN /\ m.role = "user"
                /\ Len(m.blocks) = 1
                /\ m.blocks[1].type = "tool_result"
                /\ m.blocks[1].tool_use_id = uses[k].id
       /\ j + Len(uses) < Len(rt_history) =>
             rt_history[j + Len(uses) + 1].role = "assistant"

\* Message j is the last message of a run that was cut off at the
\* iteration cap.
CutOffAt(j) == rt_stop_reason = "tool_iteration_limit" /\ j = Len(rt_history)

\* The calls of the tool_use blocks of the first n messages, in order;
\* with_cut_off tells whether the message a run was cut off at counts.
RECURSIVE CallsOfHistory(_, _)
CallsOfHistory(n, with_cut_off) ==
    IF n = 0 THEN <<>>
    ELSE CallsOfHistory(n - 1, with_cut_off) \o
            (IF rt_history[n].role = "assistant" /\ (with_cut_off \/ ~CutOffAt(n))
             THEN [k \in 1..Len(ToolUses(n)) |->
                      [id |-> ToolUses(n)[k].id, name |-> ToolUses(n)[k].name]]
             ELSE <<>>)

RecordedCalls == [i \in 1..Len(rt_tool_executions) |-> rt_tool_executions[i].call]

\* C39 as stated: in the history run returns every assistant message with
\* tool calls is followed, before the next assistant message, by one
\* tool_result message per call, in call order and with the call's id, and
\* the tool-execution records list exactly those calls in the same order.
C39_AsStated ==
    rt_pc = "done" =>
        /\ \A j \in 1..Len(rt_history) : RequestsTools(j) => Answered(j)
        /\ RecordedCalls = CallsOfHistory(Len(rt_history), TRUE)

\* C39: in the history run returns every assistant message with tool calls,
\* other than the final message of a run cut off at the iteration cap, is
\* followed, before the next assistant message, by one tool_result message
\* per call, in call order and with the call's id, and the tool-execution
\* records list exactly those calls in the same order; the calls of the
\* message the run was cut off at are neither answered nor recorded.
C39_ToolCallsAnswered ==
    rt_pc = "done" =>
        /\ \A j \in 1..Len(rt_history) :
              (RequestsTools(j) /\ ~CutOffAt(j)) => Answered(j)
        /\ rt_stop_reason = "tool_iteration_limit" => RequestsTools(Len(rt_history))
        /\ RecordedCalls = CallsOfHistory(Len(rt_history), FALSE)

\* A run answered the two calls of one response and a single call of
\* another, and was cut off at the cap of 3 with calls pending.
C39_Witness ==
    /\ rt_pc = "done"
    /\ rt_stop_reason = "tool_iteration_limit"
    /\ Len(rt_responses) = 3
    /\ Len(rt_tool_executions) = 3
    /\ Len(LastResponse.tool_calls) = 2

(***************************************************************************)
(* Properties of the salon turn flow                                       *)
(***************************************************************************)
\* C5: every turn of the flow for a scheduled participant ends with a
\* message from that participant appended to the session log, stamped with
\* the turn, also when the router answered with its degraded fallback.
C5_TurnEndsWithMessage ==
    f_turn.finished =>
        /\ sm_messages # <<>>
        /\ sm_messages[Len(sm_messages)].participant_id = f_turn.speaker
        /\ sm_messages[Len(sm_messages)].turn_number = sm_current_turn - 1

(***************************************************************************)
(* Properties of AgentSOrchestratorTool                                    *)
(***************************************************************************)
\* C24: a parallel batch returns one result per scheduled task, in task
\* order, and every task whose tool returned is reported with its own
\* result, also when another task of the batch failed or ran out of time.
C24_ParallelIsolatesFailures ==
    (o_pc = "done" /\ o_mode = "parallel") =>
        /\ Len(o_results) = Len(o_tasks)
        /\ \A k \in 1..Len(o_results) :
              /\ o_results[k].task = k
              /\ o_results[k].persona = o_tasks[k].persona
              /\ o_status[k] = "ok" => o_results[k].kind = "ok"

\* The executor runs the tasks one at a time.
OneAtATime == o_mode \in {"sequential", "priority"}

\* The execution order holds every task once; it is the list order in
\* sequential mode and descending priority in priority mode.
ExecutionOrdered ==
    /\ Len(o_sorted) = Len(o_tasks)
    /\ \A i \in 1..Len(o_tasks) : \E k \in 1..Len(o_sorted) : o_sorted[k] = i
    /\ o_mode = "sequential" => \A k \in 1..Len(o_sorted) : o_sorted[k] = k
    /\ o_mode = "priority" =>
          \A k \in 1..(Len(o_sorted) - 1) :
              o_tasks[o_sorted[k]].priority >= o_tasks[o_sorted[k + 1]].priority

\* C25: in sequential and priority mode at most one task is being invoked
\* at any time; a task is invoked only while the elapsed time is below the
\* budget; the invoked tasks are a prefix of the execution order, which is
\* descending priority in priority mode; and the returned list has one
\* entry per task in execution order, the invoked tasks with the result of
\* their invocation and every remaining task with a timeout result.
C25_SequentialBudget ==
    /\ [](OneAtATime =>
            /\ Cardinality(Running) <= 1
            /\ ExecutionOrdered
            /\ Len(o_invoked) <= Len(o_sorted)
            /\ \A k \in 1..Len(o_invoked) : o_invoked[k] = o_sorted[k])
    /\ [][ (o_mode' \in {"sequential", "priority"} /\ Len(o_invoked') > Len(o_invoked))
              => /\ o_clock < o_timeout
                 /\ Len(o_invoked') = Len(o_invoked) + 1
                 /\ Running = {} ]_vars
    /\ []((OneAtATime /\ o_pc = "done") =>
            /\ Len(o_results) = Len(o_tasks)
            /\ Len(o_invoked) < Len(o_tasks) => o_clock >= o_timeout
            /\ \A k \in 1..Len(o_results) :
                  /\ o_results[k].task = o_sorted[k]
                  /\ o_results[k].persona = o_tasks[o_sorted[k]].persona
                  /\ IF k <= Len(o_invoked)
                     THEN /\ o_results[k].kind \in ToolOutcomes
                          /\ o_results[k].kind = o_status[o_sorted[k]]
                     ELSE /\ o_results[k].kind = "timeout"
                          /\ o_status[o_sorted[k]] = "pending")

\* A priority run that reordered the tasks, invoked some of them and ran
\* out of budget before the last.
C25_Witness ==
    /\ o_pc = "done"
    /\ o_mode = "priority"
    /\ \E k \in 1..Len(o_sorted) : o_sorted[k] # k
    /\ Len(o_invoked) >= 1
    /\ Len(o_invoked) < Len(o_tasks)
    /\ o_results[Len(o_results)].kind = "timeout"

\* The last step was a call of AgentJobRunner.op.
JobsCalled(op) == j_vars' # j_vars /\ j_call'.op = op

\* A job as create_job puts it first, or as it returns it: running without
\* result and error, completed with every field of the else branch set, or
\* failed with the error and the log line of the except branch.
WholeJob(job) ==
    \/ /\ job.status = "running"
       /\ job.result = NoJobResult /\ job.error = None
       /\ job.progress = 0 /\ job.logs = 2 /\ job.artifacts = 0
    \/ /\ job.status = "completed"
       /\ job.result # NoJobResult /\ job.error = None
       /\ job.progress = 1 /\ job.logs = 3
       /\ job.artifacts = build_artifacts(job.result)
    \/ /\ job.status = "failed"
       /\ job.result = NoJobResult /\ job.error # None
       /\ job.logs = 3

\* C40: a reader that fetches a job with get_job or list_jobs while
\* create_job for that job runs on another thread never observes a
\* half-updated job: the job it gets is the running job without result and
\* error or the finished job, never status completed with the result still
\* missing.  The reader gets the stored job objects as they are in the
\* state it reads them in.
C40_ReaderSeesWholeJob ==
    [][ ((JobsCalled("get_job") /\ ~j_call'.raised) \/ JobsCalled("list_jobs"))
          => \A job_id \in DOMAIN j_jobs :
                /\ WholeJob(j_jobs[job_id])
                /\ ~(j_jobs[job_id].status = "completed"
                        /\ j_jobs[job_id].result = NoJobResult) ]_vars

(***************************************************************************)
(* Properties of AgentJobRunner                                            *)
(***************************************************************************)
\* The job that the k-th create_job returned, as the store holds it.
ReturnedJob(k) == j_jobs[j_returned[k].id]

\* C26: every job that create_job returned is in the store under its id
\* and is terminal: completed, with a result, progress 1.0 and no error,
\* when the router returned, and failed, with an error and no result, when
\* the call raised; and no step changes the status of a job that is
\* completed or failed.
C26_ReturnedJobsAreTerminal ==
    /\ [](\A k \in 1..Len(j_returned) :
            /\ j_returned[k].id \in DOMAIN j_jobs
            /\ ReturnedJob(k).id = j_returned[k].id
            /\ ReturnedJob(k).status \in {"completed", "failed"}
            /\ j_returned[k].how = "returned" =>
                  /\ ReturnedJob(k).status = "completed"
                  /\ ReturnedJob(k).result # NoJobResult
                  /\ ReturnedJob(k).progress = 1
                  /\ ReturnedJob(k).error = None
            /\ j_returned[k].how # "returned" =>
                  /\ ReturnedJob(k).status = "failed"
                  /\ ReturnedJob(k).error # None
                  /\ ReturnedJob(k).result = NoJobResult)
    /\ [][ \A job_id \in DOMAIN j_jobs :
              j_jobs[job_id].status \in {"completed", "failed"}
                  => /\ job_id \in DOMAIN j_jobs'
                     /\ j_jobs'[job_id].status = j_jobs[job_id].status ]_vars

\* A completed and a failed job were returned and the store was read since.
C26_Witness ==
    /\ \E k \in 1..Len(j_returned) : j_returned[k].how = "returned"
    /\ \E k \in 1..Len(j_returned) : j_returned[k].how = "router_raised"
    /\ j_call.op = "list_jobs"

SpecSalon == InitSalon /\ [][SalonNext]_vars

SpecTurn == InitTurn /\ [][TurnNext]_vars

SpecRouter == InitRouter /\ [][RouterNext]_vars

SpecFlow == InitFlow /\ [][FlowNext]_vars

\* Every backend call returns or raises: the HTTP request has a timeout.
SpecLifecycle == InitLifecycle /\ [][LifecycleNext]_vars

SpecOrchestrator == InitOrchestrator /\ [][OrchestratorNext]_vars

SpecJobs == InitJobs /\ [][JobsNext]_vars

SpecJobThreads == InitJobThreads /\ [][JobThreadsNext]_vars

SpecClustering == InitClustering /\ [][ConsensusNext]_vars

SpecConsensus == InitConsensus /\ [][ConsensusNext]_vars

SpecSession == InitSession /\ [][SessionNext]_vars

SpecRuntime ==
    /\ InitRuntime
    /\ [][RuntimeNext]_vars
    /\ WF_rt_vars(\E response \in BackendResponses : run_iteration(response))

====
